---- MODULE Spec2Model ----
(***************************************************************************)
(* A model of blob-js: the R2FileReader object reference (lib/file.ts),    *)
(* the Client facade (runtime/node-compat.ts), the list function           *)
(* (lib/list.ts) and BlobClient, against an S3-compatible backend.         *)
(*                                                                         *)
(* Optional JavaScript values (T | undefined) are sets with at most one    *)
(* element: {} is undefined, {x} is the value x.                           *)
(***************************************************************************)
EXTENDS Integers, Sequences, FiniteSets, TLC

\* ------------------------------------------------------------------ bounds
\* Largest number passed to slice as begin or end.
MaxArg == 3
\* Longest chain of successive slice calls from a root reference.
MaxDepth == 2
\* Largest offset, length and suffix of a range passed to BlobClient.get.
MaxRange == 2

\* ------------------------------------------------------- optional values
None == {}
Some(x) == {x}
IsSome(o) == o # {}
Get(o) == CHOOSE x \in o : TRUE
\* o ?? d
OrElse(o, d) == IF o # {} THEN Get(o) ELSE d
Min(a, b) == IF a <= b THEN a ELSE b

\* ------------------------------------------------------------ references
\* The option keys the code reads from R2Options.
OptKeys == {"bucket", "type", "acl", "storageClass", "endpoint", "accessKeyId"}
NoOptions == [k \in OptKeys |-> None]
\* { ...a, ...b }: a key b carries wins.
Merge(a, b) == [k \in OptKeys |-> IF b[k] # {} THEN b[k] ELSE a[k]]

\* new R2FileReader(path, options, range): name, #options, #bucket, #range.
R2FileReader(path, options, range) ==
  [name |-> path,
   options |-> options,
   bucket |-> OrElse(options["bucket"], ""),
   range |-> range]

\* A JavaScript argument of slice: undefined, a number or a string.
Undef == [k |-> "undefined", n |-> 0, s |-> ""]
Num(n) == [k |-> "number", n |-> n, s |-> ""]
Str(s) == [k |-> "string", n |-> 0, s |-> s]

\* The begin, end and type slice parses out of its three arguments.
SliceBegin(a1, a2, a3) == IF a1.k = "number" THEN Some(a1.n) ELSE None
SliceEnd(a1, a2, a3) ==
  IF a1.k = "number" /\ a2.k = "number" THEN Some(a2.n) ELSE None
SliceType(a1, a2, a3) ==
  IF a1.k = "string" THEN Some(a1.s)
  ELSE IF a1.k = "number" /\ a2.k = "string" THEN Some(a2.s)
  ELSE IF a1.k = "number" /\ a2.k = "number" /\ a3.k = "string" THEN Some(a3.s)
  ELSE None

\* this.#range?.begin ?? 0 and this.#range?.end
ExistingBegin(this) ==
  IF this.range = None THEN 0 ELSE OrElse(Get(this.range).begin, 0)
ExistingEnd(this) ==
  IF this.range = None THEN None ELSE Get(this.range).end

\* A slip: the supplied end is compared with the existing end without first
\* being moved to the existing window's origin.
ComposeEndUnshifted(existingBegin, existingEnd, end) ==
  IF existingEnd # None
  THEN Min(end, Get(existingEnd))
  ELSE existingBegin + end

\* newRange.end when an end was supplied.
ComposeEnd(existingBegin, existingEnd, end) ==
  IF existingEnd # None
  THEN Min(existingBegin + end, Get(existingEnd))
  ELSE existingBegin + end

\* A slip: a slice that names neither begin nor end starts from no range.
ComposeRangeFromNone(this, begin, end) ==
  IF begin # None \/ end # None
  THEN Some([begin |-> IF begin # None
                       THEN Some(ExistingBegin(this) + Get(begin))
                       ELSE Some(ExistingBegin(this)),
             end |-> IF end # None
                     THEN Some(ComposeEnd(ExistingBegin(this), ExistingEnd(this),
                                          Get(end)))
                     ELSE ExistingEnd(this)])
  ELSE None

\* The range of the reference slice returns.
ComposeRange(this, begin, end) ==
  IF begin # None \/ end # None
  THEN Some([begin |-> IF begin # None
                       THEN Some(ExistingBegin(this) + Get(begin))
                       ELSE Some(ExistingBegin(this)),
             end |-> IF end # None
                     THEN Some(ComposeEnd(ExistingBegin(this), ExistingEnd(this),
                                          Get(end)))
                     ELSE ExistingEnd(this)])
  ELSE this.range

\* R2FileReader.slice(beginOrContentType, endOrContentType, contentType)
slice(this, a1, a2, a3) ==
  R2FileReader(this.name,
               [this.options EXCEPT !["type"] = SliceType(a1, a2, a3)],
               ComposeRange(this, SliceBegin(a1, a2, a3), SliceEnd(a1, a2, a3)))

\* ---------------------------------------------------------------- backend
\* What a failed call throws: an Error (or something else) with a name.
Err(name) == [isError |-> TRUE, name |-> name, msg |-> ""]
\* An Error the library itself raises.
LibError(msg) == [isError |-> TRUE, name |-> "Error", msg |-> msg]
NoThrow == [isError |-> FALSE, name |-> "", msg |-> ""]

\* The one bucket the backend holds.
BucketName == "b"
\* The keys of the bucket in the backend's listing order.
KeyOrder == <<"a.txt", "u/b.txt", "u/c.txt">>
Keys == {KeyOrder[i] : i \in 1..Len(KeyOrder)}

\* The commands the library sends.
HeadObjectCommand(bucket, key) ==
  [cmd |-> "HeadObject", Bucket |-> bucket, Key |-> key]
GetObjectCommand(bucket, key) ==
  [cmd |-> "GetObject", Bucket |-> bucket, Key |-> key, Range |-> None]
DeleteObjectCommand(bucket, key) ==
  [cmd |-> "DeleteObject", Bucket |-> bucket, Key |-> key]
PutObjectCommand(bucket, key, body, contentType, acl, storageClass) ==
  [cmd |-> "PutObject", Bucket |-> bucket, Key |-> key, Body |-> body,
   ContentType |-> contentType, ACL |-> acl, StorageClass |-> storageClass]

\* The bytes of body inside a half-open range [begin, end); an absent begin is 0
\* and an absent end is the end of the body.
Window(body, range) ==
  IF range = None THEN body
  ELSE LET b == Min(OrElse(Get(range).begin, 0), Len(body))
           e == Min(OrElse(Get(range).end, Len(body)), Len(body))
       IN  SubSeq(body, b + 1, e)

\* The numbers the backend reads in a Range header.
HeaderNums == 0..(2 * MaxRange)
\* The backend's reading of a Range header: bytes=first-last, bytes=first-,
\* bytes=-suffix, or a header it cannot read.
ParseRange(header) ==
  IF \E a, b \in HeaderNums :
       header = "bytes=" \o ToString(a) \o "-" \o ToString(b)
  THEN LET p == CHOOSE p \in HeaderNums \X HeaderNums :
                  header = "bytes=" \o ToString(p[1]) \o "-" \o ToString(p[2])
       IN  [form |-> IF p[1] <= p[2] THEN "span" ELSE "invalid",
            first |-> p[1], last |-> p[2]]
  ELSE IF \E a \in HeaderNums : header = "bytes=" \o ToString(a) \o "-"
  THEN [form |-> "from",
        first |-> CHOOSE a \in HeaderNums :
                    header = "bytes=" \o ToString(a) \o "-",
        last |-> 0]
  ELSE IF \E n \in HeaderNums : header = "bytes=-" \o ToString(n)
  THEN [form |-> "suffix",
        first |-> CHOOSE n \in HeaderNums : header = "bytes=-" \o ToString(n),
        last |-> 0]
  ELSE [form |-> "invalid", first |-> 0, last |-> 0]

\* A range no byte of the body lies in: the backend refuses it.
Unsatisfiable(body, header) ==
  LET r == ParseRange(header)
  IN  \/ r.form \in {"span", "from"} /\ r.first >= Len(body)
      \/ r.form = "suffix" /\ r.first = 0
\* The bytes the backend returns for a GET with the Range header, if any: the
\* whole body without one and for one it cannot read; first and last count
\* from 0 and last is included.
Served(body, range) ==
  IF range = None THEN body
  ELSE LET r == ParseRange(Get(range))
       IN  IF r.form = "span"
           THEN SubSeq(body, r.first + 1, Min(r.last + 1, Len(body)))
           ELSE IF r.form = "from" THEN SubSeq(body, r.first + 1, Len(body))
           ELSE IF r.form = "suffix"
           THEN SubSeq(body, Len(body) - Min(r.first, Len(body)) + 1, Len(body))
           ELSE body

\* The backend's answer to client.send(req) on the bucket st: a fault it
\* raises, else the command's own outcome. A HEAD of a missing key raises
\* NotFound, a GET raises NoSuchKey; DELETE of a missing key succeeds. A HEAD
\* response carries the type, tag, date and storage class the object has, no
\* version, and its length unless the backend leaves lengths out for it. A
\* PUT response carries the new tag and no size.
Send(st, req, fault) ==
  IF fault # None
  THEN [ok |-> FALSE, thrown |-> Get(fault), store |-> st]
  ELSE IF req.Bucket # BucketName
  THEN [ok |-> FALSE, store |-> st,
        thrown |-> Err(IF req.cmd = "HeadObject" THEN "NotFound"
                       ELSE "NoSuchBucket")]
  ELSE IF req.cmd = "HeadObject"
  THEN IF st[req.Key] = None
       THEN [ok |-> FALSE, thrown |-> Err("NotFound"), store |-> st]
       ELSE [ok |-> TRUE, thrown |-> NoThrow, store |-> st,
             ContentType |-> Get(st[req.Key]).type,
             ETag |-> Get(st[req.Key]).etag,
             ContentLength |-> IF Get(st[req.Key]).sized
                              THEN Some(Len(Get(st[req.Key]).body)) ELSE None,
             LastModified |-> Get(st[req.Key]).lastModified,
             StorageClass |-> Get(st[req.Key]).storageClass,
             VersionId |-> None]
  ELSE IF req.cmd = "GetObject"
  THEN IF st[req.Key] = None
       THEN [ok |-> FALSE, thrown |-> Err("NoSuchKey"), store |-> st]
       ELSE IF req.Range # None
               /\ Unsatisfiable(Get(st[req.Key]).body, Get(req.Range))
       THEN [ok |-> FALSE, thrown |-> Err("InvalidRange"), store |-> st]
       ELSE [ok |-> TRUE, thrown |-> NoThrow, store |-> st,
             Body |-> Some(Served(Get(st[req.Key]).body, req.Range))]
  ELSE IF req.cmd = "PutObject"
  THEN [ok |-> TRUE, thrown |-> NoThrow, ETag |-> Some("e1"), Size |-> None,
        store |-> [st EXCEPT ![req.Key] =
                     Some([body |-> req.Body, type |-> req.ContentType,
                           etag |-> Some("e1"), lastModified |-> Some("t1"),
                           acl |-> req.ACL, storageClass |-> req.StorageClass,
                           sized |-> TRUE])]]
  ELSE \* DeleteObject
       [ok |-> TRUE, thrown |-> NoThrow,
        store |-> [st EXCEPT ![req.Key] = None]]

\* ------------------------------------------------------------ conversions
\* A slip: each code point of the string is written as one byte.
Utf8EncodeOneByteEach(text) == text

\* TextEncoder.encode: the UTF-8 bytes of a string given as its code points
\* (below 65536, no surrogates).
RECURSIVE Utf8Encode(_)
Utf8Encode(text) ==
  IF text = <<>> THEN <<>>
  ELSE LET c == Head(text)
           first == IF c < 128 THEN <<c>>
                    ELSE IF c < 2048 THEN <<192 + (c \div 64), 128 + (c % 64)>>
                    ELSE <<224 + (c \div 4096), 128 + ((c \div 64) % 64),
                           128 + (c % 64)>>
       IN  first \o Utf8Encode(Tail(text))

IsCont(b) == b >= 128 /\ b <= 191
\* The UTF-8 decoding of bytes below 240: a malformed sequence decodes to U+FFFD.
RECURSIVE Utf8Decode(_)
Utf8Decode(bytes) ==
  IF bytes = <<>> THEN <<>>
  ELSE LET b == Head(bytes)
           n == Len(bytes)
       IN  IF b < 128 THEN <<b>> \o Utf8Decode(Tail(bytes))
           ELSE IF b >= 194 /\ b <= 223 /\ n >= 2 /\ IsCont(bytes[2])
           THEN <<(b - 192) * 64 + (bytes[2] - 128)>>
                \o Utf8Decode(SubSeq(bytes, 3, n))
           ELSE IF /\ b >= 224 /\ b <= 239 /\ n >= 3
                   /\ IsCont(bytes[2]) /\ IsCont(bytes[3])
                   /\ (b = 224 => bytes[2] >= 160)
                   /\ (b = 237 => bytes[2] <= 159)
           THEN <<(b - 224) * 4096 + (bytes[2] - 128) * 64 + (bytes[3] - 128)>>
                \o Utf8Decode(SubSeq(bytes, 4, n))
           ELSE IF /\ b >= 224 /\ b <= 239 /\ n >= 2 /\ IsCont(bytes[2])
                   /\ (b = 224 => bytes[2] >= 160)
                   /\ (b = 237 => bytes[2] <= 159)
           THEN <<65533>> \o Utf8Decode(SubSeq(bytes, 3, n))
           ELSE <<65533>> \o Utf8Decode(Tail(bytes))

IsDigit(c) == c >= 48 /\ c <= 57
RECURSIVE Decimal(_)
Decimal(text) ==
  IF text = <<>> THEN 0
  ELSE 10 * Decimal(SubSeq(text, 1, Len(text) - 1)) + (text[Len(text)] - 48)
AllDigits(text) == \A i \in 1..Len(text) : IsDigit(text[i])
\* The integer part of a JSON number: digits without a leading zero.
IsInt(text) ==
  text # <<>> /\ AllDigits(text) /\ (Len(text) > 1 => text[1] # 48)
RECURSIVE Pow10(_)
Pow10(n) == IF n = 0 THEN 1 ELSE 10 * Pow10(n - 1)
\* Where a text splits into an integer part, an e or E, and the digits of an
\* exponent.
ExponentAt(text) ==
  {i \in 2..(Len(text) - 1) :
     /\ text[i] \in {101, 69}
     /\ IsInt(SubSeq(text, 1, i - 1))
     /\ AllDigits(SubSeq(text, i + 1, Len(text)))}
JsonNumber(n) == [kind |-> "number", num |-> n]
JsonLiteral(name) == [kind |-> name, num |-> 0]
\* JSON.parse on texts of digits and letters: true, false and null are
\* values, digits without a leading zero are a number, with or without an
\* exponent (the numbers an integer holds exactly), and every other such text
\* is a SyntaxError.
JsonParse(text) ==
  IF text = <<116, 114, 117, 101>>
  THEN [ok |-> TRUE, value |-> JsonLiteral("true")]
  ELSE IF text = <<102, 97, 108, 115, 101>>
  THEN [ok |-> TRUE, value |-> JsonLiteral("false")]
  ELSE IF text = <<110, 117, 108, 108>>
  THEN [ok |-> TRUE, value |-> JsonLiteral("null")]
  ELSE IF IsInt(text)
  THEN [ok |-> TRUE, value |-> JsonNumber(Decimal(text))]
  ELSE IF ExponentAt(text) # {}
  THEN LET i == CHOOSE i \in ExponentAt(text) : TRUE
       IN  [ok |-> TRUE,
            value |-> JsonNumber(Decimal(SubSeq(text, 1, i - 1))
                                 * Pow10(Decimal(SubSeq(text, i + 1, Len(text)))))]
  ELSE [ok |-> FALSE, value |-> JsonLiteral("none")]

\* ------------------------------------------------- R2FileReader operations
\* How a call ended: what it sent, what the backend threw at it, and what the
\* caller got (a value returned, or an error thrown).
Returned(this, reqs, r, val) ==
  [this |-> this, reqs |-> reqs,
   failed |-> IF r.ok THEN None ELSE Some(r.thrown),
   outcome |-> "return", err |-> NoThrow, val |-> val, store |-> r.store]
Threw(this, reqs, failed, e, st) ==
  [this |-> this, reqs |-> reqs, failed |-> failed,
   outcome |-> "throw", err |-> e, val |-> None, store |-> st]

IsNotFound(e) ==
  e.isError /\ (e.name = "NotFound" \/ e.name = "NoSuchKey")

\* A slip: exists tells not-found from other failures by nothing at all.
R2FileReader_existsAnyFailure(this, st, fault) ==
  LET req == HeadObjectCommand(this.bucket, this.name)
      r == Send(st, req, fault)
  IN  Returned(this, <<req>>, r, r.ok)

\* R2FileReader.exists()
R2FileReader_exists(this, st, fault) ==
  LET req == HeadObjectCommand(this.bucket, this.name)
      r == Send(st, req, fault)
  IN  IF r.ok THEN Returned(this, <<req>>, r, TRUE)
      ELSE IF IsNotFound(r.thrown) THEN Returned(this, <<req>>, r, FALSE)
      ELSE Threw(this, <<req>>, Some(r.thrown), r.thrown, st)

\* A slip: a missing date becomes the epoch, not the time of the call.
S3StatEpochDefault(type, etag, size, lastModified) ==
  [type |-> OrElse(type, ""), etag |-> OrElse(etag, ""),
   size |-> OrElse(size, 0), lastModified |-> OrElse(lastModified, "epoch")]

\* new S3Stat(type, etag, size, lastModified); new Date() is "now".
S3Stat(type, etag, size, lastModified) ==
  [type |-> OrElse(type, ""), etag |-> OrElse(etag, ""),
   size |-> OrElse(size, 0), lastModified |-> OrElse(lastModified, "now")]

\* R2FileReader.stat()
R2FileReader_stat(this, st, fault) ==
  LET req == HeadObjectCommand(this.bucket, this.name)
      r == Send(st, req, fault)
  IN  IF r.ok
      THEN Returned(this, <<req>>, r,
                    S3Stat(r.ContentType, r.ETag, r.ContentLength, r.LastModified))
      ELSE Threw(this, <<req>>, Some(r.thrown), r.thrown, st)

\* R2FileReader.arrayBuffer() and bytes(): the bytes of the response body, or
\* no bytes when the response has no body.
R2FileReader_arrayBuffer(this, st, fault, noBody) ==
  LET req == GetObjectCommand(this.bucket, this.name)
      r == Send(st, req, fault)
  IN  IF ~r.ok THEN Threw(this, <<req>>, Some(r.thrown), r.thrown, st)
      ELSE IF noBody THEN Returned(this, <<req>>, r, <<>>)
      ELSE Returned(this, <<req>>, r, Get(r.Body))

R2FileReader_bytes(this, st, fault, noBody) ==
  LET req == GetObjectCommand(this.bucket, this.name)
      r == Send(st, req, fault)
  IN  IF ~r.ok THEN Threw(this, <<req>>, Some(r.thrown), r.thrown, st)
      ELSE IF noBody THEN Returned(this, <<req>>, r, <<>>)
      ELSE Returned(this, <<req>>, r, Get(r.Body))

\* R2FileReader.text()
R2FileReader_text(this, st, fault, noBody) ==
  LET req == GetObjectCommand(this.bucket, this.name)
      r == Send(st, req, fault)
  IN  IF ~r.ok THEN Threw(this, <<req>>, Some(r.thrown), r.thrown, st)
      ELSE IF noBody THEN Returned(this, <<req>>, r, <<>>)
      ELSE Returned(this, <<req>>, r, Utf8Decode(Get(r.Body)))

\* A slip: json fetches the object itself before it asks text for it.
R2FileReader_jsonFetchesTwice(this, st, fault, noBody) ==
  LET t == R2FileReader_text(this, st, fault, noBody)
  IN  IF t.outcome = "throw" THEN t
      ELSE IF JsonParse(t.val).ok
      THEN [t EXCEPT !.val = JsonParse(t.val).value, !.reqs = t.reqs \o t.reqs]
      ELSE Threw(this, t.reqs \o t.reqs, None,
                 [isError |-> TRUE, name |-> "SyntaxError", msg |-> ""], st)

\* R2FileReader.json()
R2FileReader_json(this, st, fault, noBody) ==
  LET t == R2FileReader_text(this, st, fault, noBody)
  IN  IF t.outcome = "throw" THEN t
      ELSE IF JsonParse(t.val).ok
      THEN [t EXCEPT !.val = JsonParse(t.val).value]
      ELSE Threw(this, t.reqs, None,
                 [isError |-> TRUE, name |-> "SyntaxError", msg |-> ""], st)

\* A slip: delete takes a not-found failure for a deletion done.
R2FileReader_deleteNotFoundAsDone(this, st, fault) ==
  LET req == DeleteObjectCommand(this.bucket, this.name)
      r == Send(st, req, fault)
  IN  IF r.ok \/ IsNotFound(r.thrown) THEN Returned(this, <<req>>, r, None)
      ELSE Threw(this, <<req>>, Some(r.thrown), r.thrown, st)

\* R2FileReader.delete()
R2FileReader_delete(this, st, fault) ==
  LET req == DeleteObjectCommand(this.bucket, this.name)
      r == Send(st, req, fault)
  IN  IF r.ok THEN Returned(this, <<req>>, r, None)
      ELSE Threw(this, <<req>>, Some(r.thrown), r.thrown, st)

\* a || b on optional strings: "" and undefined are falsy.
Truthy(o) == o # None /\ o # Some("")
OrIfFalsy(a, b) == IF Truthy(a) THEN a ELSE IF Truthy(b) THEN b ELSE None

\* The payload kinds write tells apart, in the order it tests them.
IsBuffer(data) == data.kind \in {"ArrayBuffer", "SharedArrayBuffer"}
IsView(data) == data.kind \in {"Uint8Array", "Buffer", "DataView"}
IsRequestOrResponse(data) == data.kind \in {"Request", "Response"}
IsBlob(data) == data.kind \in {"Blob", "File"}
Supported(data) ==
  data.kind = "string" \/ IsBuffer(data) \/ IsView(data)
  \/ IsRequestOrResponse(data) \/ IsBlob(data)

\* The body write sends for a supported payload.
WriteBody(data) ==
  IF data.kind = "string" THEN Utf8Encode(data.text) ELSE data.bytes

\* A slip: the type a request, response or blob carries is taken before the
\* type the caller supplied.
WriteContentTypePayloadFirst(this, data, options) ==
  LET contentType == IF options["type"] # None THEN options["type"]
                     ELSE this.options["type"]
  IN  IF IsRequestOrResponse(data) \/ IsBlob(data)
      THEN OrIfFalsy(data.ctype, contentType)
      ELSE contentType

\* The content type write sends: options?.type ?? this.#options?.type, and for
\* a request, response or blob the payload's own type when that is falsy.
WriteContentType(this, data, options) ==
  LET contentType == IF options["type"] # None THEN options["type"]
                     ELSE this.options["type"]
  IN  IF IsRequestOrResponse(data) \/ IsBlob(data)
      THEN OrIfFalsy(contentType, data.ctype)
      ELSE contentType

\* A slip: write keeps the content type it sent as the reference's own.
R2FileReader_writeKeepsType(this, data, options, st, fault) ==
  IF ~Supported(data)
  THEN Threw(this, <<>>, None, LibError("Unsupported data type"), st)
  ELSE LET type == WriteContentType(this, data, options)
           kept == [this EXCEPT !.options["type"] = type]
           req == PutObjectCommand(this.bucket, this.name, WriteBody(data),
                                   type, options["acl"], options["storageClass"])
           r == Send(st, req, fault)
       IN  IF r.ok THEN Returned(kept, <<req>>, r, Len(WriteBody(data)))
           ELSE Threw(kept, <<req>>, Some(r.thrown), r.thrown, st)

\* R2FileReader.write(data, options)
R2FileReader_write(this, data, options, st, fault) ==
  IF ~Supported(data)
  THEN Threw(this, <<>>, None, LibError("Unsupported data type"), st)
  ELSE LET req == PutObjectCommand(this.bucket, this.name, WriteBody(data),
                                   WriteContentType(this, data, options),
                                   options["acl"], options["storageClass"])
           r == Send(st, req, fault)
       IN  IF r.ok THEN Returned(this, <<req>>, r, Len(WriteBody(data)))
           ELSE Threw(this, <<req>>, Some(r.thrown), r.thrown, st)

\* options?.expiresIn || 900
FileDefaultExpiresIn == 900
Methods == {"GET", "PUT", "DELETE", "HEAD"}

\* The command presign signs for a supported method.
CommandToSign(this, method, options) ==
  IF method = "GET" THEN GetObjectCommand(this.bucket, this.name)
  ELSE IF method = "PUT"
  THEN [cmd |-> "PutObject", Bucket |-> this.bucket, Key |-> this.name,
        ContentType |-> IF options.opts["type"] # None
                        THEN options.opts["type"] ELSE this.options["type"],
        ACL |-> options.opts["acl"]]
  ELSE IF method = "DELETE" THEN DeleteObjectCommand(this.bucket, this.name)
  ELSE HeadObjectCommand(this.bucket, this.name)

\* R2FileReader.presign(options): the signed URL is the command signed and
\* its expiry; fault is what the signer throws.
R2FileReader_presign(this, options, st, fault) ==
  LET method == IF Truthy(options.method) THEN Get(options.method) ELSE "GET"
      expiresIn == IF options.expiresIn # None /\ options.expiresIn # Some(0)
                   THEN Get(options.expiresIn) ELSE FileDefaultExpiresIn
  IN  IF method \notin Methods
      THEN Threw(this, <<>>, None,
                 LibError("Unsupported method: " \o method), st)
      ELSE IF fault # None
      THEN Threw(this, <<>>, fault, Get(fault), st)
      ELSE [this |-> this, reqs |-> <<>>,
            failed |-> None, outcome |-> "return", err |-> NoThrow,
            val |-> [signed |-> CommandToSign(this, method, options),
                     expiresIn |-> expiresIn],
            store |-> st]

\* ------------------------------------------------------------------- list
\* The fields of R2ListObjectsOptions; a null or absent input has none.
NoInput ==
  [prefix |-> None, continuationToken |-> None, delimiter |-> None,
   maxKeys |-> None, fetchOwner |-> None, encodingType |-> None,
   startAfter |-> None]

\* The ListObjectsV2Command the list function of lib/list.ts sends.
ListCommand(input, options) ==
  [cmd |-> "ListObjectsV2", Bucket |-> options["bucket"],
   Prefix |-> input.prefix, ContinuationToken |-> input.continuationToken,
   Delimiter |-> input.delimiter, MaxKeys |-> input.maxKeys,
   FetchOwner |-> input.fetchOwner, EncodingType |-> input.encodingType,
   StartAfter |-> input.startAfter]

\* The ListObjectsV2Command the static Client.list sends: the bucket alone.
ClientListCommand(input, options) ==
  [cmd |-> "ListObjectsV2", Bucket |-> options["bucket"],
   Prefix |-> None, ContinuationToken |-> None, Delimiter |-> None,
   MaxKeys |-> None, FetchOwner |-> None, EncodingType |-> None,
   StartAfter |-> None]

\* A JavaScript object: a function from the names of its members to their
\* values, where a member whose value is undefined is mapped to None.
EmptyObject == [k \in {} |-> None]
\* obj.k = v
Set(obj, k, v) == (k :> v) @@ obj
\* if (cond) obj.k = v
SetIf(cond, obj, k, v) == IF cond THEN Set(obj, k, v) ELSE obj

\* new Date(d).toISOString()
ToISOString(d) == [iso |-> d]

\* content.owner = { id: c.Owner?.ID, displayName: c.Owner?.DisplayName }
OwnerOf(owner) ==
  Set(Set(EmptyObject, "id", owner.ID), "displayName", owner.DisplayName)

\* content.restoreStatus = { isRestoreInProgress, restoreExpiryDate }
RestoreStatusOf(rs) ==
  Set(Set(EmptyObject, "isRestoreInProgress", rs.IsRestoreInProgress),
      "restoreExpiryDate",
      IF Truthy(rs.RestoreExpiryDate)
      THEN Some(ToISOString(Get(rs.RestoreExpiryDate))) ELSE None)

\* One entry of listObject.contents, from one entry c of response.Contents.
ContentOf(c) ==
  LET c0 == Set(Set(EmptyObject, "eTag", Some(OrElse(c.ETag, ""))),
                "key", Some(OrElse(c.Key, "")))
      c1 == SetIf(c.ChecksumAlgorithm # None /\ Get(c.ChecksumAlgorithm) # <<>>
                    /\ Get(c.ChecksumAlgorithm)[1] # "",
                  c0, "checksumAlgorithm",
                  Some(Get(c.ChecksumAlgorithm)[1]))
      c2 == SetIf(Truthy(c.ChecksumType), c1, "checksumType", c.ChecksumType)
      c3 == SetIf(c.LastModified # None, c2, "lastModified",
                  Some(ToISOString(IF Truthy(c.LastModified)
                                   THEN Get(c.LastModified) ELSE "now")))
      c4 == SetIf(c.Owner # None, c3, "owner", Some(OwnerOf(Get(c.Owner))))
      c5 == SetIf(c.RestoreStatus # None, c4, "restoreStatus",
                  Some(RestoreStatusOf(Get(c.RestoreStatus))))
      c6 == SetIf(c.Size # None, c5, "size", c.Size)
  IN  SetIf(c.StorageClass # None, c6, "storageClass", c.StorageClass)

\* A slip: contents is assigned whether or not the response has Contents.
ListObjectOfAlwaysContents(response) ==
  LET l0 == SetIf(Truthy(response.Name), EmptyObject, "name", response.Name)
      l1 == SetIf(response.CommonPrefixes # None, l0, "commonPrefixes",
                  Some([i \in 1..Len(Get(response.CommonPrefixes)) |->
                          Set(EmptyObject, "prefix",
                              Some(OrElse(Get(response.CommonPrefixes)[i].Prefix,
                                          "")))]))
      l2 == SetIf(Truthy(response.Delimiter), l1, "delimiter",
                  response.Delimiter)
      l3 == SetIf(Truthy(response.ContinuationToken), l2, "continuationToken",
                  response.ContinuationToken)
      l4 == SetIf(response.IsTruncated # None, l3, "isTruncated",
                  response.IsTruncated)
      l5 == SetIf(Truthy(response.EncodingType), l4, "encodingType",
                  response.EncodingType)
      l6 == SetIf(Truthy(response.StartAfter), l5, "startAfter",
                  response.StartAfter)
      l7 == SetIf(response.MaxKeys # None, l6, "maxKeys", response.MaxKeys)
      l8 == SetIf(response.KeyCount # None, l7, "keyCount", response.KeyCount)
      l9 == SetIf(Truthy(response.Prefix), l8, "prefix", response.Prefix)
      l10 == SetIf(Truthy(response.NextContinuationToken), l9,
                   "nextContinuationToken", response.NextContinuationToken)
  IN  Set(l10, "contents",
          IF response.Contents # None
          THEN Some([i \in 1..Len(Get(response.Contents)) |->
                       ContentOf(Get(response.Contents)[i])])
          ELSE None)

\* The R2ListObjectsResponse built from the backend's response.
ListObjectOf(response) ==
  LET l0 == SetIf(Truthy(response.Name), EmptyObject, "name", response.Name)
      l1 == SetIf(response.CommonPrefixes # None, l0, "commonPrefixes",
                  Some([i \in 1..Len(Get(response.CommonPrefixes)) |->
                          Set(EmptyObject, "prefix",
                              Some(OrElse(Get(response.CommonPrefixes)[i].Prefix,
                                          "")))]))
      l2 == SetIf(Truthy(response.Delimiter), l1, "delimiter",
                  response.Delimiter)
      l3 == SetIf(Truthy(response.ContinuationToken), l2, "continuationToken",
                  response.ContinuationToken)
      l4 == SetIf(response.IsTruncated # None, l3, "isTruncated",
                  response.IsTruncated)
      l5 == SetIf(Truthy(response.EncodingType), l4, "encodingType",
                  response.EncodingType)
      l6 == SetIf(Truthy(response.StartAfter), l5, "startAfter",
                  response.StartAfter)
      l7 == SetIf(response.MaxKeys # None, l6, "maxKeys", response.MaxKeys)
      l8 == SetIf(response.KeyCount # None, l7, "keyCount", response.KeyCount)
      l9 == SetIf(Truthy(response.Prefix), l8, "prefix", response.Prefix)
      l10 == SetIf(Truthy(response.NextContinuationToken), l9,
                   "nextContinuationToken", response.NextContinuationToken)
  IN  SetIf(response.Contents # None, l10, "contents",
            Some([i \in 1..Len(Get(response.Contents)) |->
                    ContentOf(Get(response.Contents)[i])]))

\* The backend's ListObjectsV2 -----------------------------------------------
\* The largest page the backend returns, and the page size when the request
\* names none.
BackendMaxKeys == 1000
KeyIndex(k) == CHOOSE i \in 1..Len(KeyOrder) : KeyOrder[i] = k
\* The part of a key up to and including its last "/".
KeyDir(k) == IF k = "a.txt" THEN "" ELSE "u/"
HasPrefix(k, prefix) == prefix = "" \/ prefix = KeyDir(k) \/ prefix = k
\* Under a delimiter, a key with a "/" after the prefix is rolled up.
RolledUp(k, req) ==
  req.Delimiter = Some("/") /\ KeyDir(k) # "" /\ OrElse(req.Prefix, "") = ""

RECURSIVE Filter(_, _, _, _)
\* The keys from position i on that are stored, match the prefix and come
\* after the marker, in listing order.
Filter(st, req, marker, i) ==
  IF i > Len(KeyOrder) THEN <<>>
  ELSE (IF /\ st[KeyOrder[i]] # None
           /\ HasPrefix(KeyOrder[i], OrElse(req.Prefix, ""))
           /\ (marker # None => i > KeyIndex(Get(marker)))
        THEN <<KeyOrder[i]>> ELSE <<>>) \o Filter(st, req, marker, i + 1)

RECURSIVE Dirs(_, _)
\* The distinct common prefixes of the rolled-up keys of a page, in order.
Dirs(page, req) ==
  IF page = <<>> THEN <<>>
  ELSE LET rest == Dirs(Tail(page), req)
       IN  IF RolledUp(Head(page), req)
              /\ \A j \in 1..Len(rest) : rest[j] # KeyDir(Head(page))
           THEN <<KeyDir(Head(page))>> \o rest ELSE rest

RECURSIVE Plain(_, _)
\* The keys of a page that are not rolled up.
Plain(page, req) ==
  IF page = <<>> THEN <<>>
  ELSE (IF RolledUp(Head(page), req) THEN <<>> ELSE <<Head(page)>>)
       \o Plain(Tail(page), req)

\* One entry of Contents; which optional attributes come with it is the
\* backend's choice (profile), the owner only when the request fetches it.
RawContent(st, k, req, profile) ==
  [Key |-> Some(k), ETag |-> Get(st[k]).etag,
   Size |-> Some(Len(Get(st[k]).body)),
   LastModified |-> Get(st[k]).lastModified,
   StorageClass |-> Get(st[k]).storageClass,
   Owner |-> IF req.FetchOwner = Some(TRUE) THEN profile.Owner ELSE None,
   ChecksumAlgorithm |-> profile.ChecksumAlgorithm,
   ChecksumType |-> profile.ChecksumType,
   RestoreStatus |-> profile.RestoreStatus]

\* The backend's answer to a ListObjectsV2Command. A continuation token is the
\* last key of the page before; a page holds profile.PageSize keys at most.
\* With nothing to list, Contents and CommonPrefixes are left out, or are
\* empty lists when the backend is one that sends them so.
SendList(st, req, fault, profile) ==
  IF fault # None
  THEN [ok |-> FALSE, thrown |-> Get(fault), store |-> st]
  ELSE IF req.Bucket # Some(BucketName)
  THEN [ok |-> FALSE, thrown |-> Err("NoSuchBucket"), store |-> st]
  ELSE LET marker == IF req.ContinuationToken # None
                     THEN req.ContinuationToken ELSE req.StartAfter
           all == Filter(st, req, marker, 1)
           n == Min(Min(OrElse(req.MaxKeys, profile.PageSize), profile.PageSize),
                    Len(all))
           page == SubSeq(all, 1, n)
           dirs == Dirs(page, req)
           plain == Plain(page, req)
       IN  [ok |-> TRUE, thrown |-> NoThrow, store |-> st,
            Name |-> req.Bucket,
            Prefix |-> Some(OrElse(req.Prefix, "")),
            Delimiter |-> req.Delimiter,
            MaxKeys |-> Some(OrElse(req.MaxKeys, profile.PageSize)),
            KeyCount |-> Some(Len(dirs) + Len(plain)),
            IsTruncated |-> Some(n < Len(all)),
            ContinuationToken |-> req.ContinuationToken,
            NextContinuationToken |->
              IF n < Len(all) /\ n > 0 THEN Some(page[n]) ELSE None,
            StartAfter |-> req.StartAfter,
            EncodingType |-> req.EncodingType,
            CommonPrefixes |->
              IF dirs = <<>>
              THEN (IF profile.EmptyLists THEN Some(<<>>) ELSE None)
              ELSE Some([i \in 1..Len(dirs) |-> [Prefix |-> Some(dirs[i])]]),
            Contents |->
              IF plain = <<>>
              THEN (IF profile.EmptyLists THEN Some(<<>>) ELSE None)
              ELSE Some([i \in 1..Len(plain) |->
                           RawContent(st, plain[i], req, profile)])]

\* list(input, options) of lib/list.ts
list(input, options, st, fault, profile) ==
  LET req == ListCommand(input, options)
      r == SendList(st, req, fault, profile)
  IN  IF r.ok THEN Returned(None, <<req>>, r, ListObjectOf(r))
      ELSE Threw(None, <<req>>, Some(r.thrown), r.thrown, st)

\* ------------------------------------------------------------------ Client
\* Client.file(path, options), static: no defaults.
Client_static_file(path, options) == R2FileReader(path, options, None)
\* client.file(path, options): the instance's options under the call's.
Client_file(self, path, options) ==
  R2FileReader(path, Merge(self, options), None)

\* client.write(path, data, options) and Client.write(path, data, options)
Client_write(self, path, data, options, st, fault) ==
  R2FileReader_write(Client_file(self, path, Merge(self, options)), data,
                     NoOptions, st, fault)
Client_static_write(path, data, options, st, fault) ==
  R2FileReader_write(Client_static_file(path, options), data, NoOptions, st,
                     fault)

\* A slip: client.presign fills in an hour before it hands the call on.
Client_presignHourDefault(self, path, options, st, fault) ==
  R2FileReader_presign(Client_file(self, path, NoOptions),
                       [options EXCEPT !.expiresIn =
                          IF options.expiresIn = None THEN Some(3600)
                          ELSE options.expiresIn],
                       st, fault)

\* client.presign(path, options) and Client.presign(path, options)
Client_presign(self, path, options, st, fault) ==
  R2FileReader_presign(Client_file(self, path, NoOptions), options, st, fault)
Client_static_presign(path, options, st, fault) ==
  R2FileReader_presign(Client_static_file(path, options.opts), options, st,
                       fault)

\* client.unlink, client.delete and their static forms
Client_unlink(self, path, options, st, fault) ==
  R2FileReader_delete(Client_file(self, path, options), st, fault)
Client_static_unlink(path, options, st, fault) ==
  R2FileReader_delete(Client_static_file(path, options), st, fault)
Client_delete(self, path, options, st, fault) ==
  R2FileReader_delete(Client_file(self, path, options), st, fault)
Client_static_delete(path, options, st, fault) ==
  R2FileReader_delete(Client_static_file(path, options), st, fault)

\* (await file.stat()).size
SizeOf(stat) ==
  IF stat.outcome = "return" THEN [stat EXCEPT !.val = stat.val.size] ELSE stat
\* client.size(path, options) and Client.size(path, options)
Client_size(self, path, options, st, fault) ==
  SizeOf(R2FileReader_stat(Client_file(self, path, options), st, fault))
Client_static_size(path, options, st, fault) ==
  SizeOf(R2FileReader_stat(Client_static_file(path, options), st, fault))

\* client.exists(path, options) and Client.exists(path, options)
Client_exists(self, path, options, st, fault) ==
  R2FileReader_exists(Client_file(self, path, options), st, fault)
Client_static_exists(path, options, st, fault) ==
  R2FileReader_exists(Client_static_file(path, options), st, fault)

\* client.stat(path, options) and Client.stat(path, options)
Client_stat(self, path, options, st, fault) ==
  R2FileReader_stat(Client_file(self, path, Merge(self, options)), st, fault)
Client_static_stat(path, options, st, fault) ==
  R2FileReader_stat(Client_static_file(path, options), st, fault)

\* Client.list(input, options), static
Client_static_list(input, options, st, fault, profile) ==
  LET req == ClientListCommand(input, options)
      r == SendList(st, req, fault, profile)
  IN  IF r.ok THEN Returned(None, <<req>>, r, ListObjectOf(r))
      ELSE Threw(None, <<req>>, Some(r.thrown), r.thrown, st)
\* client.list(input, options)
Client_list(self, input, options, st, fault, profile) ==
  Client_static_list(input, Merge(self, options), st, fault, profile)

\* -------------------------------------------------------------- BlobClient
\* blobClient.exists(path)
BlobClient_exists(self, path, st, fault) ==
  LET req == HeadObjectCommand(self.bucket, path)
      r == Send(st, req, fault)
  IN  IF r.ok THEN Returned(None, <<req>>, r, TRUE)
      ELSE IF IsNotFound(r.thrown) THEN Returned(None, <<req>>, r, FALSE)
      ELSE Threw(None, <<req>>, Some(r.thrown), r.thrown, st)

\* `${x}` of a number, or of undefined.
Template(o) == IF o = None THEN "undefined" ELSE ToString(Get(o))
\* The range option of get as an object of offset, length and suffix.
RangeObject(obj) == [kind |-> "object", obj |-> obj, header |-> None]
\* The range option of get as Headers with or without a range header.
RangeHeaders(header) == [kind |-> "Headers", obj |-> EmptyObject,
                         header |-> header]

\* The Range header get builds from options.range.
RangeHeader(range) ==
  IF range = None THEN None
  ELSE IF Get(range).kind = "Headers" THEN Get(range).header
  ELSE LET o == Get(range).obj
       IN  IF "suffix" \in DOMAIN o
           THEN Some("bytes=-" \o Template(o["suffix"]))
           ELSE IF "offset" \in DOMAIN o /\ o["offset"] # None
           THEN LET start == Get(o["offset"])
                    length == IF "length" \in DOMAIN o THEN o["length"]
                              ELSE None
                    end == IF length # None /\ Get(length) # 0
                           THEN ToString(start + Get(length) - 1) ELSE ""
                IN  Some("bytes=" \o ToString(start) \o "-" \o end)
           ELSE IF "length" \in DOMAIN o /\ o["length"] # None
           THEN Some("bytes=0-" \o ToString(Get(o["length"]) - 1))
           ELSE None

\* blobClient.get(path, options), called without onlyIf and ssecKey: the
\* object's key and the bytes of the response body.
BlobClient_get(self, path, options, st, fault) ==
  LET req == [GetObjectCommand(self.bucket, path) EXCEPT
                !.Range = RangeHeader(options.range)]
      r == Send(st, req, fault)
  IN  IF r.ok
      THEN Returned(None, <<req>>, r, [key |-> path, body |-> Get(r.Body)])
      ELSE Threw(None, <<req>>, Some(r.thrown), r.thrown, st)

\* options?.expiresIn ?? 3600
BlobDefaultExpiresIn == 3600

\* The command presigned signs: that of the method, and a GET for any other.
BlobCommandToSign(self, path, method) ==
  IF method = "PUT"
  THEN [cmd |-> "PutObject", Bucket |-> self.bucket, Key |-> path,
        ContentType |-> None, ACL |-> None]
  ELSE IF method = "DELETE" THEN DeleteObjectCommand(self.bucket, path)
  ELSE IF method = "HEAD" THEN HeadObjectCommand(self.bucket, path)
  ELSE GetObjectCommand(self.bucket, path)

\* blobClient.presigned(path, options); fault is what the signer throws.
BlobClient_presigned(self, path, options, st, fault) ==
  LET method == OrElse(options.method, "GET")
      expiresIn == OrElse(options.expiresIn, BlobDefaultExpiresIn)
  IN  IF fault # None THEN Threw(None, <<>>, fault, Get(fault), st)
      ELSE [this |-> None, reqs |-> <<>>,
            failed |-> None, outcome |-> "return", err |-> NoThrow,
            val |-> [signed |-> BlobCommandToSign(self, path, method),
                     expiresIn |-> expiresIn],
            store |-> st]

\* The Body blobClient.write sends: the bytes of a blob, an ArrayBuffer, a
\* view or a stream read to its end, the string itself (UTF-8 on the wire),
\* and "" for null and for a payload of any other kind.
BlobWriteBody(data) ==
  IF data.kind = "string" THEN Utf8Encode(data.text)
  ELSE IF \/ IsBlob(data) \/ data.kind = "ArrayBuffer" \/ IsView(data)
          \/ data.kind = "ReadableStream"
  THEN data.bytes
  ELSE <<>>

\* blobClient.write(path, data), called without options: a PUT of the body
\* with no content type, ACL or storage class; the R2Object it returns has
\* the tag and the size of the response, "" and 0 in the place of each the
\* response leaves out.
BlobClient_write(self, path, data, st, fault) ==
  LET req == PutObjectCommand(self.bucket, path, BlobWriteBody(data), None,
                              None, None)
      r == Send(st, req, fault)
  IN  IF r.ok
      THEN Returned(None, <<req>>, r,
                    [key |-> path, etag |-> OrElse(r.ETag, ""),
                     httpEtag |-> OrElse(r.ETag, ""), size |-> OrElse(r.Size, 0),
                     storageClass |-> "", version |-> "", uploaded |-> "now"])
      ELSE Threw(None, <<req>>, Some(r.thrown), r.thrown, st)

\* blobClient.delete(path)
BlobClient_delete(self, path, st, fault) ==
  LET req == DeleteObjectCommand(self.bucket, path)
      r == Send(st, req, fault)
  IN  IF r.ok THEN Returned(None, <<req>>, r, None)
      ELSE Threw(None, <<req>>, Some(r.thrown), r.thrown, st)

\* blobClient.unlink(path): await this.delete(path)
BlobClient_unlink(self, path, st, fault) ==
  BlobClient_delete(self, path, st, fault)

\* blobClient.file(path): the web stream of the response body, here the bytes
\* it yields, or an empty stream when the response has no body.
BlobClient_file(self, path, st, fault, noBody) ==
  LET req == GetObjectCommand(self.bucket, path)
      r == Send(st, req, fault)
  IN  IF ~r.ok THEN Threw(None, <<req>>, Some(r.thrown), r.thrown, st)
      ELSE IF noBody THEN Returned(None, <<req>>, r, <<>>)
      ELSE Returned(None, <<req>>, r, Get(r.Body))

\* blobClient.stat(path): the R2Object built from the HEAD response.
BlobClient_stat(self, path, st, fault) ==
  LET req == HeadObjectCommand(self.bucket, path)
      r == Send(st, req, fault)
  IN  IF r.ok
      THEN Returned(None, <<req>>, r,
                    [key |-> path, version |-> OrElse(r.VersionId, ""),
                     size |-> OrElse(r.ContentLength, 0),
                     etag |-> OrElse(r.ETag, ""),
                     httpEtag |-> OrElse(r.ETag, ""),
                     uploaded |-> OrElse(r.LastModified, "now"),
                     contentType |-> r.ContentType,
                     storageClass |-> OrElse(r.StorageClass, "")])
      ELSE Threw(None, <<req>>, Some(r.thrown), r.thrown, st)

\* blobClient.size(path): response.ContentLength ?? 0
BlobClient_size(self, path, st, fault) ==
  LET req == HeadObjectCommand(self.bucket, path)
      r == Send(st, req, fault)
  IN  IF r.ok THEN Returned(None, <<req>>, r, OrElse(r.ContentLength, 0))
      ELSE Threw(None, <<req>>, Some(r.thrown), r.thrown, st)

\* The fields of R2ListOptions blobClient.list reads; an absent input has
\* none.
NoBlobInput ==
  [prefix |-> None, delimiter |-> None, limit |-> None, cursor |-> None,
   startAfter |-> None]
\* The ListObjectsV2Command blobClient.list sends.
BlobListCommand(self, input) ==
  [cmd |-> "ListObjectsV2", Bucket |-> Some(self.bucket),
   Prefix |-> input.prefix, ContinuationToken |-> input.cursor,
   Delimiter |-> input.delimiter, MaxKeys |-> input.limit,
   FetchOwner |-> None, EncodingType |-> None,
   StartAfter |-> input.startAfter]
\* One entry of objects, from one entry item of response.Contents.
R2ObjectOf(item) ==
  [key |-> item.Key, size |-> OrElse(item.Size, 0),
   etag |-> IF Truthy(item.ETag) THEN Get(item.ETag) ELSE "",
   httpEtag |-> IF Truthy(item.ETag) THEN Get(item.ETag) ELSE "",
   uploaded |-> OrElse(item.LastModified, "now"),
   version |-> "", storageClass |-> item.StorageClass]

\* blobClient.list(input): the R2Objects built from the response.
BlobClient_list(self, input, st, fault, profile) ==
  LET req == BlobListCommand(self, input)
      r == SendList(st, req, fault, profile)
  IN  IF r.ok
      THEN Returned(None, <<req>>, r,
                    [delimitedPrefixes |->
                       IF r.CommonPrefixes # None
                       THEN [i \in 1..Len(Get(r.CommonPrefixes)) |->
                               Get(r.CommonPrefixes)[i].Prefix]
                       ELSE <<>>,
                     truncated |-> OrElse(r.IsTruncated, FALSE),
                     cursor |-> r.NextContinuationToken,
                     objects |->
                       IF r.Contents # None
                       THEN [i \in 1..Len(Get(r.Contents)) |->
                               R2ObjectOf(Get(r.Contents)[i])]
                       ELSE <<>>])
      ELSE Threw(None, <<req>>, Some(r.thrown), r.thrown, st)

\* ------------------------------------------------------------------ state
VARIABLES
  client,  \* the Client instance: its default options
  file,    \* the reference the caller got from client.file
  part,    \* the reference the caller got from file.slice, if any
  store,   \* the backend's bucket: the object stored under each key, if any
  call,    \* the last operation the caller ran and how it ended
  strm,    \* the stream the caller holds, if any: adapter, queue and consumer
  lst,     \* a caller paging through the bucket with list
  wrote,   \* the string a.txt was last written from, if it still holds it
  chain,   \* a root reference followed by the references sliced from it in turn
  calls    \* the arguments of the slice call that produced chain[i + 1]

vars == <<client, file, part, store, call, strm, lst, wrote, chain, calls>>
opVars == <<client, file, part, store, call, strm, wrote>>
sliceVars == <<chain, calls>>

Types == {"text/plain"}
Nums == {Num(n) : n \in 0..MaxArg}
\* The argument lists the three overloads of slice accept.
SliceArgs ==
  {<<a1, a2, a3>> : a1 \in Nums \cup {Undef}, a2 \in Nums \cup {Undef},
                    a3 \in {Str(t) : t \in Types} \cup {Undef}}
  \cup {<<a1, Str(t), Undef>> : a1 \in Nums \cup {Undef}, t \in Types}
  \cup {<<Str(t), Undef, Undef>> : t \in Types}

\* Ranges a root reference is constructed with.
RootRanges ==
  {None,
   Some([begin |-> Some(1), end |-> None]),
   Some([begin |-> Some(1), end |-> Some(3)]),
   Some([begin |-> None, end |-> Some(2)])}
RootOptions ==
  {[NoOptions EXCEPT !["bucket"] = Some("b"), !["type"] = t] :
     t \in {None, Some("image/png")}}

\* No stream: the caller holds none.
NoStream ==
  [pc |-> "none", body |-> <<>>, reader |-> FALSE, state |-> "readable",
   stored |-> NoThrow, getFailed |-> None, queue |-> <<>>,
   closeRequested |-> FALSE, pending |-> FALSE, pulls |-> 0, taken |-> 0,
   got |-> <<>>, done |-> FALSE, seen |-> None, cancelled |-> FALSE,
   takenAtCancel |-> 0, readFailed |-> None, noBody |-> FALSE,
   produced |-> <<>>]
NoCall == [op |-> "none"]
\* No listing: the caller has not begun to page through the bucket.
NoListing ==
  [entry |-> "none", mode |-> "none", pageSize |-> 0, reqs |-> <<>>,
   pages |-> <<>>, truncated |-> FALSE, token |-> None, n |-> 0,
   thrown |-> None]

\* An object as the backend stores it.
Object(body, type) ==
  [body |-> body, type |-> type, etag |-> Some("e0"),
   lastModified |-> Some("t0"), acl |-> None, storageClass |-> None,
   sized |-> TRUE]
\* An object for which the backend returns no type, tag, length or date.
BareObject(body) ==
  [body |-> body, type |-> None, etag |-> None, lastModified |-> None,
   acl |-> None, storageClass |-> None, sized |-> FALSE]

\* The client is constructed with a bucket and credentials; the bucket holds
\* two objects under u/ and perhaps a.txt, with or without its attributes.
Init ==
  /\ client = [NoOptions EXCEPT !["bucket"] = Some("b"),
                                !["accessKeyId"] = Some("key")]
  /\ \E t \in {None, Some("image/png")} :
       file = Client_file(client, "a.txt", [NoOptions EXCEPT !["type"] = t])
  /\ part = None
  /\ \E a \in {None, Some(Object(<<49, 50, 51>>, Some("text/plain"))),
               Some(BareObject(<<66>>))} :
       store = [k \in Keys |->
                  IF k = "a.txt" THEN a
                  ELSE Some(Object(<<65>>, None))]
  /\ call = NoCall
  /\ strm = NoStream
  /\ lst = NoListing
  /\ wrote = None
  /\ chain = <<file>>
  /\ calls = <<>>

\* A root reference constructed with any of the root ranges.
SliceInit ==
  /\ client = NoOptions
  /\ \E o \in RootOptions, r \in RootRanges :
       /\ file = R2FileReader("a.txt", o, r)
       /\ chain = <<R2FileReader("a.txt", o, r)>>
  /\ part = None
  /\ store = [k \in Keys |-> None]
  /\ call = NoCall
  /\ strm = NoStream
  /\ lst = NoListing
  /\ wrote = None
  /\ calls = <<>>

Current == chain[Len(chain)]

\* The caller slices the reference it holds.
Slice ==
  /\ Len(chain) <= MaxDepth
  /\ \E args \in SliceArgs :
       /\ chain' = Append(chain, slice(Current, args[1], args[2], args[3]))
       /\ calls' = Append(calls, args)
  /\ UNCHANGED <<opVars, lst>>

SliceNext == Slice

SpecSlice == SliceInit /\ [][SliceNext]_vars

\* ----------------------------------------------------------- input sets
\* What the backend, or the signer, may throw at a call.
Faults ==
  {None, Some(Err("AccessDenied")), Some(Err("NotFound")),
   Some(Err("NoSuchKey")),
   Some([isError |-> FALSE, name |-> "NotFound", msg |-> ""])}
\* Per-call options, an empty type among them.
CallOptions ==
  {NoOptions,
   [NoOptions EXCEPT !["type"] = Some("text/html"),
                     !["acl"] = Some("public-read")],
   [NoOptions EXCEPT !["bucket"] = Some("b2"),
                     !["endpoint"] = Some("https://e2")],
   [NoOptions EXCEPT !["type"] = Some("")]}
\* The options of a static call: credentials and bucket with each call.
StaticOptions ==
  {Merge([NoOptions EXCEPT !["bucket"] = Some("b"),
                           !["accessKeyId"] = Some("key")], o) :
     o \in CallOptions}
\* Payloads handed to write.
Payload(kind, text, bytes, ctype) ==
  [kind |-> kind, text |-> text, bytes |-> bytes, ctype |-> ctype]
Payloads ==
  {Payload("string", <<65, 233>>, <<>>, None),
   Payload("Uint8Array", <<>>, <<49, 50>>, None),
   Payload("Response", <<>>, <<49, 101, 49>>, Some("application/json")),
   Payload("Blob", <<>>, <<110, 117, 108, 108>>, Some("")),
   Payload("R2File", <<>>, <<>>, None),
   Payload("ReadableStream", <<>>, <<>>, None),
   Payload("Object", <<>>, <<>>, None)}
PresignInputs ==
  [opts : CallOptions,
   method : {None, Some("PUT"), Some("DELETE"), Some("HEAD"), Some("POST")},
   expiresIn : {None, Some(60)}]
\* PresignOptions of BlobClient.presigned: a type, no ACL.
BlobPresignInputs ==
  [opts : {NoOptions, [NoOptions EXCEPT !["type"] = Some("text/html")]},
   method : {None, Some("PUT"), Some("DELETE"), Some("HEAD"), Some("POST")},
   expiresIn : {None, Some(60)}]
\* The range options of BlobClient.get: none, each form of R2Range over small
\* numbers, an offset or a length present but undefined, and Headers.
RangeNums == 0..MaxRange
GetRanges ==
  {None, Some(RangeHeaders(None)), Some(RangeHeaders(Some("bytes=1-1"))),
   Some(RangeObject(Set(Set(EmptyObject, "offset", None), "length", Some(1)))),
   Some(RangeObject(Set(EmptyObject, "length", None)))}
  \cup {Some(RangeObject(Set(EmptyObject, "suffix", Some(n)))) : n \in RangeNums}
  \cup {Some(RangeObject(Set(EmptyObject, "offset", Some(n)))) : n \in RangeNums}
  \cup {Some(RangeObject(Set(EmptyObject, "length", Some(n)))) : n \in RangeNums}
  \cup {Some(RangeObject(Set(Set(EmptyObject, "offset", Some(a)),
                             "length", Some(b)))) :
          a \in RangeNums, b \in RangeNums}
\* Payloads handed to blobClient.write: null and a response among them.
BlobPayloads ==
  {Payload("string", <<65, 233>>, <<>>, None),
   Payload("Uint8Array", <<>>, <<49, 50>>, None),
   Payload("Blob", <<>>, <<110, 117, 108, 108>>, Some("")),
   Payload("ReadableStream", <<>>, <<49, 50>>, None),
   Payload("Response", <<>>, <<49, 101, 49>>, Some("application/json")),
   Payload("null", <<>>, <<>>, None)}
\* Inputs of blobClient.list.
BlobListInputs ==
  {NoBlobInput,
   [NoBlobInput EXCEPT !.prefix = Some("u/"), !.limit = Some(1)],
   [NoBlobInput EXCEPT !.delimiter = Some("/")],
   [NoBlobInput EXCEPT !.prefix = Some("zz")],
   [NoBlobInput EXCEPT !.cursor = Some("a.txt")],
   [NoBlobInput EXCEPT !.startAfter = Some("u/b.txt")]}
\* The arguments of the slice calls of the caller that goes on to read.
PartArgs ==
  {<<Num(1), Num(3), Undef>>, <<Num(2), Undef, Undef>>,
   <<Str("text/plain"), Undef, Undef>>, <<Num(0), Num(2), Str("text/plain")>>}
\* How the backend answers a listing: its page size and which optional
\* attributes it returns with a listed object.
PlainProfile ==
  [PageSize |-> BackendMaxKeys, Owner |-> None, RestoreStatus |-> None,
   ChecksumAlgorithm |-> None, ChecksumType |-> None, EmptyLists |-> FALSE]
Profiles ==
  {PlainProfile,
   [PlainProfile EXCEPT
      !.Owner = Some([ID |-> Some("o1"), DisplayName |-> None]),
      !.ChecksumAlgorithm = Some(<<"CRC32">>),
      !.ChecksumType = Some("FULL_OBJECT")],
   [PlainProfile EXCEPT
      !.Owner = Some([ID |-> Some("o1"), DisplayName |-> Some("me")]),
      !.RestoreStatus = Some([IsRestoreInProgress |-> Some(FALSE),
                              RestoreExpiryDate |-> Some("t2")])],
   [PlainProfile EXCEPT
      !.RestoreStatus = Some([IsRestoreInProgress |-> Some(TRUE),
                              RestoreExpiryDate |-> None])],
   [PlainProfile EXCEPT !.EmptyLists = TRUE]}
ListInputs ==
  {NoInput,
   [NoInput EXCEPT !.prefix = Some("u/"), !.maxKeys = Some(1),
                   !.fetchOwner = Some(TRUE)],
   [NoInput EXCEPT !.delimiter = Some("/"), !.encodingType = Some("url")],
   [NoInput EXCEPT !.prefix = Some("zz")],
   [NoInput EXCEPT !.startAfter = Some("a.txt"),
                   !.continuationToken = Some("u/b.txt")]}

\* ------------------------------------------------- operations, one by one
\* The caller runs one operation at a time: none while it holds a stream or
\* has yet to take the result of the call before.
Idle == strm.pc = "none" /\ call.op = "none"
\* The references the caller holds.
Held == {file} \cup part

\* What a.txt is known to hold after the call c: the string of a write that
\* succeeded, nothing known after any other write or a delete.
WroteAfter(c) ==
  IF c.op = "write" /\ c.outcome = "return"
  THEN IF c.input.data.kind = "string" THEN Some(c.input.data.text) ELSE None
  ELSE IF c.op \in {"delete", "unlink"} /\ c.outcome = "return" THEN None
  ELSE wrote

\* The record of a finished call that took options besides its input.
FinishedWith(op, entry, input, options, r) ==
  [op |-> op, entry |-> entry, input |-> input, options |-> options,
   this |-> r.this, reqs |-> r.reqs, failed |-> r.failed,
   outcome |-> r.outcome, err |-> r.err, val |-> r.val]

\* The record of a finished call.
Finished(op, entry, input, r) ==
  [op |-> op, entry |-> entry, input |-> input, this |-> r.this,
   reqs |-> r.reqs, failed |-> r.failed, outcome |-> r.outcome,
   err |-> r.err, val |-> r.val]

\* part = file.slice(...)
FileSlice ==
  /\ Idle
  /\ \E args \in PartArgs :
       part' = Some(slice(file, args[1], args[2], args[3]))
  /\ UNCHANGED <<client, file, store, call, strm, lst, wrote, sliceVars>>

FileExists ==
  /\ Idle
  /\ \E this \in Held, fault \in Faults :
       LET r == R2FileReader_exists(this, store, fault)
       IN  call' = Finished("exists", "R2FileReader", None, r) /\ store' = r.store
  /\ wrote' = WroteAfter(call')
  /\ UNCHANGED <<client, file, part, strm, lst, sliceVars>>

FileStat ==
  /\ Idle
  /\ \E this \in Held, fault \in Faults :
       LET r == R2FileReader_stat(this, store, fault)
       IN  call' = Finished("stat", "R2FileReader", None, r) /\ store' = r.store
  /\ wrote' = WroteAfter(call')
  /\ UNCHANGED <<client, file, part, strm, lst, sliceVars>>

FileArrayBuffer ==
  /\ Idle
  /\ \E this \in Held, fault \in Faults, noBody \in BOOLEAN :
       LET r == R2FileReader_arrayBuffer(this, store, fault, noBody)
       IN  /\ call' = Finished("arrayBuffer", "R2FileReader", noBody, r)
           /\ store' = r.store
  /\ wrote' = WroteAfter(call')
  /\ UNCHANGED <<client, file, part, strm, lst, sliceVars>>

FileBytes ==
  /\ Idle
  /\ \E this \in Held, fault \in Faults, noBody \in BOOLEAN :
       LET r == R2FileReader_bytes(this, store, fault, noBody)
       IN  /\ call' = Finished("bytes", "R2FileReader", noBody, r)
           /\ store' = r.store
  /\ wrote' = WroteAfter(call')
  /\ UNCHANGED <<client, file, part, strm, lst, sliceVars>>

FileText ==
  /\ Idle
  /\ \E this \in Held, fault \in Faults, noBody \in BOOLEAN :
       LET r == R2FileReader_text(this, store, fault, noBody)
       IN  /\ call' = Finished("text", "R2FileReader", noBody, r)
           /\ store' = r.store
  /\ wrote' = WroteAfter(call')
  /\ UNCHANGED <<client, file, part, strm, lst, sliceVars>>

FileJson ==
  /\ Idle
  /\ \E this \in Held, fault \in Faults, noBody \in BOOLEAN :
       LET r == R2FileReader_json(this, store, fault, noBody)
       IN  /\ call' = Finished("json", "R2FileReader", noBody, r)
           /\ store' = r.store
  /\ wrote' = WroteAfter(call')
  /\ UNCHANGED <<client, file, part, strm, lst, sliceVars>>

FileWrite ==
  /\ Idle
  /\ \E this \in Held, data \in Payloads, options \in CallOptions,
        fault \in Faults :
       LET r == R2FileReader_write(this, data, options, store, fault)
       IN  /\ call' = Finished("write", "R2FileReader",
                               [data |-> data, options |-> options], r)
           /\ store' = r.store
  /\ wrote' = WroteAfter(call')
  /\ UNCHANGED <<client, file, part, strm, lst, sliceVars>>

FilePresign ==
  /\ Idle
  /\ \E this \in Held, options \in PresignInputs, fault \in Faults :
       LET r == R2FileReader_presign(this, options, store, fault)
       IN  /\ call' = Finished("presign", "R2FileReader", options, r)
           /\ store' = r.store
  /\ wrote' = WroteAfter(call')
  /\ UNCHANGED <<client, file, part, strm, lst, sliceVars>>

FileDelete ==
  /\ Idle
  /\ \E this \in Held, fault \in Faults :
       LET r == R2FileReader_delete(this, store, fault)
       IN  call' = Finished("delete", "R2FileReader", None, r) /\ store' = r.store
  /\ wrote' = WroteAfter(call')
  /\ UNCHANGED <<client, file, part, strm, lst, sliceVars>>

\* client.file(path, options): the reference is all the call returns.
ClientFile ==
  /\ Idle
  /\ \E options \in CallOptions :
       LET this == Client_file(client, "a.txt", options)
       IN  call' = Finished("file", "Client", options,
                            [this |-> this, reqs |-> <<>>, failed |-> None,
                             outcome |-> "return", err |-> NoThrow,
                             val |-> None])
  /\ UNCHANGED <<client, file, part, store, strm, lst, wrote, sliceVars>>

ClientExists ==
  /\ Idle
  /\ \E options \in CallOptions, fault \in Faults :
       LET r == Client_exists(client, "a.txt", options, store, fault)
       IN  call' = Finished("exists", "Client", options, r) /\ store' = r.store
  /\ wrote' = WroteAfter(call')
  /\ UNCHANGED <<client, file, part, strm, lst, sliceVars>>

StaticExists ==
  /\ Idle
  /\ \E options \in StaticOptions, fault \in Faults :
       LET r == Client_static_exists("a.txt", options, store, fault)
       IN  /\ call' = Finished("exists", "Client.static", options, r)
           /\ store' = r.store
  /\ wrote' = WroteAfter(call')
  /\ UNCHANGED <<client, file, part, strm, lst, sliceVars>>

BlobClientExists ==
  /\ Idle
  /\ \E fault \in Faults :
       LET r == BlobClient_exists([bucket |-> "b"], "a.txt", store, fault)
       IN  call' = Finished("exists", "BlobClient", None, r) /\ store' = r.store
  /\ wrote' = WroteAfter(call')
  /\ UNCHANGED <<client, file, part, strm, lst, sliceVars>>

ClientStat ==
  /\ Idle
  /\ \E options \in CallOptions, fault \in Faults :
       LET r == Client_stat(client, "a.txt", options, store, fault)
       IN  call' = Finished("stat", "Client", options, r) /\ store' = r.store
  /\ wrote' = WroteAfter(call')
  /\ UNCHANGED <<client, file, part, strm, lst, sliceVars>>

StaticStat ==
  /\ Idle
  /\ \E options \in StaticOptions, fault \in Faults :
       LET r == Client_static_stat("a.txt", options, store, fault)
       IN  /\ call' = Finished("stat", "Client.static", options, r)
           /\ store' = r.store
  /\ wrote' = WroteAfter(call')
  /\ UNCHANGED <<client, file, part, strm, lst, sliceVars>>

ClientSize ==
  /\ Idle
  /\ \E options \in CallOptions, fault \in Faults :
       LET r == Client_size(client, "a.txt", options, store, fault)
       IN  call' = Finished("size", "Client", options, r) /\ store' = r.store
  /\ wrote' = WroteAfter(call')
  /\ UNCHANGED <<client, file, part, strm, lst, sliceVars>>

StaticSize ==
  /\ Idle
  /\ \E options \in StaticOptions, fault \in Faults :
       LET r == Client_static_size("a.txt", options, store, fault)
       IN  /\ call' = Finished("size", "Client.static", options, r)
           /\ store' = r.store
  /\ wrote' = WroteAfter(call')
  /\ UNCHANGED <<client, file, part, strm, lst, sliceVars>>

ClientWrite ==
  /\ Idle
  /\ \E data \in Payloads, options \in CallOptions, fault \in Faults :
       LET r == Client_write(client, "a.txt", data, options, store, fault)
       IN  /\ call' = Finished("write", "Client",
                               [data |-> data, options |-> options], r)
           /\ store' = r.store
  /\ wrote' = WroteAfter(call')
  /\ UNCHANGED <<client, file, part, strm, lst, sliceVars>>

StaticWrite ==
  /\ Idle
  /\ \E data \in Payloads, options \in StaticOptions, fault \in Faults :
       LET r == Client_static_write("a.txt", data, options, store, fault)
       IN  /\ call' = Finished("write", "Client.static",
                               [data |-> data, options |-> options], r)
           /\ store' = r.store
  /\ wrote' = WroteAfter(call')
  /\ UNCHANGED <<client, file, part, strm, lst, sliceVars>>

ClientDelete ==
  /\ Idle
  /\ \E options \in CallOptions, fault \in Faults :
       LET r == Client_delete(client, "a.txt", options, store, fault)
       IN  call' = Finished("delete", "Client", options, r) /\ store' = r.store
  /\ wrote' = WroteAfter(call')
  /\ UNCHANGED <<client, file, part, strm, lst, sliceVars>>

StaticDelete ==
  /\ Idle
  /\ \E options \in StaticOptions, fault \in Faults :
       LET r == Client_static_delete("a.txt", options, store, fault)
       IN  /\ call' = Finished("delete", "Client.static", options, r)
           /\ store' = r.store
  /\ wrote' = WroteAfter(call')
  /\ UNCHANGED <<client, file, part, strm, lst, sliceVars>>

ClientUnlink ==
  /\ Idle
  /\ \E options \in CallOptions, fault \in Faults :
       LET r == Client_unlink(client, "a.txt", options, store, fault)
       IN  call' = Finished("unlink", "Client", options, r) /\ store' = r.store
  /\ wrote' = WroteAfter(call')
  /\ UNCHANGED <<client, file, part, strm, lst, sliceVars>>

StaticUnlink ==
  /\ Idle
  /\ \E options \in StaticOptions, fault \in Faults :
       LET r == Client_static_unlink("a.txt", options, store, fault)
       IN  /\ call' = Finished("unlink", "Client.static", options, r)
           /\ store' = r.store
  /\ wrote' = WroteAfter(call')
  /\ UNCHANGED <<client, file, part, strm, lst, sliceVars>>

ClientPresign ==
  /\ Idle
  /\ \E options \in PresignInputs, fault \in Faults :
       LET r == Client_presign(client, "a.txt", options, store, fault)
       IN  call' = Finished("presign", "Client", options, r) /\ store' = r.store
  /\ wrote' = WroteAfter(call')
  /\ UNCHANGED <<client, file, part, strm, lst, sliceVars>>

StaticPresign ==
  /\ Idle
  /\ \E o \in PresignInputs, so \in StaticOptions, fault \in Faults :
       LET options == [o EXCEPT !.opts = Merge(so, o.opts)]
           r == Client_static_presign("a.txt", options, store, fault)
       IN  /\ call' = Finished("presign", "Client.static", options, r)
           /\ store' = r.store
  /\ wrote' = WroteAfter(call')
  /\ UNCHANGED <<client, file, part, strm, lst, sliceVars>>

BlobClientPresigned ==
  /\ Idle
  /\ \E options \in BlobPresignInputs, fault \in Faults :
       LET r == BlobClient_presigned([bucket |-> "b"], "a.txt", options, store,
                                     fault)
       IN  /\ call' = Finished("presign", "BlobClient", options, r)
           /\ store' = r.store
  /\ wrote' = WroteAfter(call')
  /\ UNCHANGED <<client, file, part, strm, lst, sliceVars>>

BlobClientGet ==
  /\ Idle
  /\ \E range \in GetRanges, fault \in Faults :
       LET r == BlobClient_get([bucket |-> "b"], "a.txt", [range |-> range],
                               store, fault)
       IN  /\ call' = Finished("get", "BlobClient", [range |-> range], r)
           /\ store' = r.store
  /\ wrote' = WroteAfter(call')
  /\ UNCHANGED <<client, file, part, strm, lst, sliceVars>>

BlobClientWrite ==
  /\ Idle
  /\ \E data \in BlobPayloads, fault \in Faults :
       LET r == BlobClient_write([bucket |-> "b"], "a.txt", data, store, fault)
       IN  /\ call' = Finished("write", "BlobClient", [data |-> data], r)
           /\ store' = r.store
  /\ wrote' = WroteAfter(call')
  /\ UNCHANGED <<client, file, part, strm, lst, sliceVars>>

BlobClientDelete ==
  /\ Idle
  /\ \E fault \in Faults :
       LET r == BlobClient_delete([bucket |-> "b"], "a.txt", store, fault)
       IN  call' = Finished("delete", "BlobClient", None, r) /\ store' = r.store
  /\ wrote' = WroteAfter(call')
  /\ UNCHANGED <<client, file, part, strm, lst, sliceVars>>

BlobClientUnlink ==
  /\ Idle
  /\ \E fault \in Faults :
       LET r == BlobClient_unlink([bucket |-> "b"], "a.txt", store, fault)
       IN  call' = Finished("unlink", "BlobClient", None, r) /\ store' = r.store
  /\ wrote' = WroteAfter(call')
  /\ UNCHANGED <<client, file, part, strm, lst, sliceVars>>

BlobClientFile ==
  /\ Idle
  /\ \E fault \in Faults, noBody \in BOOLEAN :
       LET r == BlobClient_file([bucket |-> "b"], "a.txt", store, fault, noBody)
       IN  call' = Finished("file", "BlobClient", noBody, r) /\ store' = r.store
  /\ wrote' = WroteAfter(call')
  /\ UNCHANGED <<client, file, part, strm, lst, sliceVars>>

BlobClientStat ==
  /\ Idle
  /\ \E fault \in Faults :
       LET r == BlobClient_stat([bucket |-> "b"], "a.txt", store, fault)
       IN  call' = Finished("stat", "BlobClient", None, r) /\ store' = r.store
  /\ wrote' = WroteAfter(call')
  /\ UNCHANGED <<client, file, part, strm, lst, sliceVars>>

BlobClientSize ==
  /\ Idle
  /\ \E fault \in Faults :
       LET r == BlobClient_size([bucket |-> "b"], "a.txt", store, fault)
       IN  call' = Finished("size", "BlobClient", None, r) /\ store' = r.store
  /\ wrote' = WroteAfter(call')
  /\ UNCHANGED <<client, file, part, strm, lst, sliceVars>>

BlobClientList ==
  /\ Idle
  /\ \E input \in BlobListInputs, fault \in Faults,
        profile \in {PlainProfile, [PlainProfile EXCEPT !.EmptyLists = TRUE]} :
       LET r == BlobClient_list([bucket |-> "b"], input, store, fault, profile)
       IN  call' = Finished("list", "BlobClient", input, r) /\ store' = r.store
  /\ wrote' = WroteAfter(call')
  /\ UNCHANGED <<client, file, part, strm, lst, sliceVars>>

ClientList ==
  /\ Idle
  /\ \E input \in ListInputs, options \in CallOptions, fault \in Faults,
        profile \in Profiles :
       LET r == Client_list(client, input, options, store, fault, profile)
       IN  /\ call' = FinishedWith("list", "Client", input, options, r)
           /\ store' = r.store
  /\ wrote' = WroteAfter(call')
  /\ UNCHANGED <<client, file, part, strm, lst, sliceVars>>

StaticList ==
  /\ Idle
  /\ \E input \in ListInputs, options \in StaticOptions, fault \in Faults,
        profile \in Profiles :
       LET r == Client_static_list(input, options, store, fault, profile)
       IN  /\ call' = FinishedWith("list", "Client.static", input, options, r)
           /\ store' = r.store
  /\ wrote' = WroteAfter(call')
  /\ UNCHANGED <<client, file, part, strm, lst, sliceVars>>

LibList ==
  /\ Idle
  /\ \E input \in ListInputs, options \in StaticOptions, fault \in Faults,
        profile \in Profiles :
       LET r == list(input, options, store, fault, profile)
       IN  /\ call' = FinishedWith("list", "list", input, options, r)
           /\ store' = r.store
  /\ wrote' = WroteAfter(call')
  /\ UNCHANGED <<client, file, part, strm, lst, sliceVars>>

\* ----------------------------------------------------------------- stream
\* Largest chunk, in bytes, the transport hands over in one read.
MaxChunk == 2
\* The queue capacity of a ReadableStream constructed without a strategy.
HighWaterMark == 1
TypeError == [isError |-> TRUE, name |-> "TypeError", msg |-> ""]
\* What a read of the transport may fail with.
TransportFaults == {Err("ECONNRESET")}

\* controller.error(e): a readable stream becomes errored, its queue is
\* dropped and a waiting read is rejected; otherwise nothing happens.
ControllerError(s, e) ==
  IF s.state = "readable"
  THEN [s EXCEPT !.state = "errored", !.stored = e, !.queue = <<>>,
                 !.pending = FALSE,
                 !.seen = IF s.pending THEN Some(e) ELSE s.seen]
  ELSE s

CanCloseOrEnqueue(s) == s.state = "readable" /\ ~s.closeRequested

\* controller.close() inside start's try: closes at once when the queue is
\* empty (a waiting read sees the end), else once the queue is drained; on a
\* stream that is no longer readable it throws, and the catch calls
\* controller.error.
TryClose(s) ==
  IF CanCloseOrEnqueue(s)
  THEN IF s.queue = <<>>
       THEN [s EXCEPT !.closeRequested = TRUE, !.state = "closed",
                      !.pending = FALSE,
                      !.done = IF s.pending THEN TRUE ELSE s.done]
       ELSE [s EXCEPT !.closeRequested = TRUE]
  ELSE ControllerError(s, TypeError)

\* controller.enqueue(chunk) on a stream that can take it: a waiting read
\* gets the chunk, else the chunk joins the queue.
Enqueue(s, chunk) ==
  IF s.pending
  THEN [s EXCEPT !.pending = FALSE, !.got = Append(s.got, chunk)]
  ELSE [s EXCEPT !.queue = Append(s.queue, chunk)]

\* start, after `await client.send(GetObjectCommand)`: r is the backend's
\* answer.
StartOnResponse(s, r, noBody) ==
  IF ~r.ok
  THEN [ControllerError(s, r.thrown) EXCEPT !.pc = "exited",
                                            !.getFailed = Some(r.thrown)]
  ELSE IF noBody THEN [TryClose(s) EXCEPT !.pc = "exited", !.noBody = TRUE]
  ELSE [s EXCEPT !.pc = "reading", !.body = Get(r.Body), !.reader = TRUE]

\* A slip: a chunk is handed on only while the consumer waits for one.
StartOnChunkUnqueued(s, n) ==
  LET t == [s EXCEPT !.body = SubSeq(s.body, n + 1, Len(s.body)),
                     !.taken = s.taken + 1,
                     !.produced = Append(s.produced, SubSeq(s.body, 1, n))]
  IN  IF ~CanCloseOrEnqueue(t)
      THEN [ControllerError(t, TypeError) EXCEPT !.pc = "exited"]
      ELSE IF t.pending THEN Enqueue(t, SubSeq(s.body, 1, n))
      ELSE t

\* start's loop, after `await reader.read()` gave a chunk of n bytes; the
\* chunks the transport has produced are kept in produced.
StartOnChunk(s, n) ==
  LET t == [s EXCEPT !.body = SubSeq(s.body, n + 1, Len(s.body)),
                     !.taken = s.taken + 1,
                     !.produced = Append(s.produced, SubSeq(s.body, 1, n))]
  IN  IF CanCloseOrEnqueue(t) THEN Enqueue(t, SubSeq(s.body, 1, n))
      ELSE [ControllerError(t, TypeError) EXCEPT !.pc = "exited"]

\* start's loop, after `await reader.read()` gave done.
StartOnDone(s) == [TryClose(s) EXCEPT !.pc = "exited"]

\* A slip: a failed read of the transport ends the stream as if the body
\* were through.
StartOnReadErrorAsEnd(s, e) ==
  [TryClose(s) EXCEPT !.pc = "exited", !.readFailed = Some(e)]

\* start's loop, after `await reader.read()` was rejected with e.
StartOnReadError(s, e) ==
  [ControllerError(s, e) EXCEPT !.pc = "exited", !.readFailed = Some(e)]

\* The consumer's read of the stream: a queued chunk, the end, the stored
\* error, or a wait for the next chunk.
ConsumerReadOf(s) ==
  LET t == [s EXCEPT !.pulls = s.pulls + 1]
  IN  IF t.state = "errored" THEN [t EXCEPT !.seen = Some(t.stored)]
      ELSE IF t.state = "closed" THEN [t EXCEPT !.done = TRUE]
      ELSE IF t.queue # <<>>
      THEN [t EXCEPT !.queue = Tail(t.queue),
                     !.got = Append(t.got, Head(t.queue)),
                     !.state = IF t.closeRequested /\ Len(t.queue) = 1
                               THEN "closed" ELSE "readable"]
      ELSE [t EXCEPT !.pending = TRUE]

\* The consumer stops iterating: the stream is cancelled. The underlying
\* source has no cancel callback, so the adapter is told nothing.
ConsumerCancelOf(s) ==
  [s EXCEPT !.cancelled = TRUE, !.takenAtCancel = s.taken,
            !.state = IF s.state = "readable" THEN "closed" ELSE s.state,
            !.queue = IF s.state = "readable" THEN <<>> ELSE s.queue]

\* R2FileReader.stream(): the stream is constructed and start sends the GET.
FileStream ==
  /\ Idle
  /\ \E this \in Held :
       /\ strm' = [NoStream EXCEPT !.pc = "sending"]
       /\ call' = [op |-> "stream", entry |-> "R2FileReader", input |-> None,
                   this |-> this,
                   reqs |-> <<GetObjectCommand(this.bucket, this.name)>>,
                   failed |-> None, outcome |-> "return", err |-> NoThrow,
                   val |-> None]
  /\ UNCHANGED <<client, file, part, store, lst, wrote, sliceVars>>

\* The backend answers the GET.
StartGetResponse ==
  /\ strm.pc = "sending"
  /\ \E fault \in Faults, noBody \in BOOLEAN :
       strm' = StartOnResponse(strm, Send(store, call.reqs[1], fault), noBody)
  /\ UNCHANGED <<client, file, part, store, call, lst, wrote, sliceVars>>

\* The transport hands the read loop its next chunk.
StartReadChunk ==
  /\ strm.pc = "reading"
  /\ strm.body # <<>>
  /\ \E n \in 1..Min(MaxChunk, Len(strm.body)) : strm' = StartOnChunk(strm, n)
  /\ UNCHANGED <<client, file, part, store, call, lst, wrote, sliceVars>>

\* The transport reports the end of the body.
StartReadDone ==
  /\ strm.pc = "reading"
  /\ strm.body = <<>>
  /\ strm' = StartOnDone(strm)
  /\ UNCHANGED <<client, file, part, store, call, lst, wrote, sliceVars>>

\* The transport fails.
StartReadError ==
  /\ strm.pc = "reading"
  /\ \E e \in TransportFaults : strm' = StartOnReadError(strm, e)
  /\ UNCHANGED <<client, file, part, store, call, lst, wrote, sliceVars>>

\* The consumer asks for the next chunk; it has one read in flight at most
\* and stops at the end or at an error.
ConsumerRead ==
  /\ strm.pc # "none"
  /\ ~strm.pending /\ ~strm.done /\ strm.seen = None /\ ~strm.cancelled
  /\ strm' = ConsumerReadOf(strm)
  /\ UNCHANGED <<client, file, part, store, call, lst, wrote, sliceVars>>

\* The consumer stops early, between two reads.
ConsumerCancel ==
  /\ strm.pc # "none"
  /\ ~strm.pending /\ ~strm.done /\ strm.seen = None /\ ~strm.cancelled
  /\ strm' = ConsumerCancelOf(strm)
  /\ UNCHANGED <<client, file, part, store, call, lst, wrote, sliceVars>>

\* The caller lets go of a stream it is through with.
StreamDrop ==
  /\ strm.pc = "exited"
  /\ strm.done \/ strm.seen # None \/ strm.cancelled
  /\ strm' = NoStream
  /\ UNCHANGED <<client, file, part, store, call, lst, wrote, sliceVars>>

\* The caller takes the result of the call and goes on.
Return ==
  /\ strm.pc = "none"
  /\ call.op # "none"
  /\ call' = NoCall
  /\ UNCHANGED <<client, file, part, store, strm, lst, wrote, sliceVars>>

\* ------------------------------------------------------------ pagination
\* The calls a paging caller makes at most.
MaxListCalls == 4
\* The largest page size of the backend the caller pages through.
MaxPage == 2
ListEntries == {"Client", "Client.static", "list"}
ClientEntries == {"Client", "Client.static"}
ListModes == {"token", "startAfter"}

\* The bucket holds any of the keys.
ListInit ==
  /\ client = [NoOptions EXCEPT !["bucket"] = Some("b"),
                                !["accessKeyId"] = Some("key")]
  /\ file = Client_file(client, "a.txt", NoOptions)
  /\ part = None
  /\ \E held \in SUBSET Keys :
       store = [k \in Keys |->
                  IF k \in held THEN Some(Object(<<65>>, None)) ELSE None]
  /\ call = NoCall
  /\ strm = NoStream
  /\ lst = NoListing
  /\ wrote = None
  /\ chain = <<file>>
  /\ calls = <<>>

\* One list call through an entry point, against a backend that answers.
ListThrough(entry, input, profile) ==
  IF entry = "Client"
  THEN Client_list(client, input, NoOptions, store, None, profile)
  ELSE IF entry = "Client.static"
  THEN Client_static_list(input, client, store, None, profile)
  ELSE list(input, client, store, None, profile)

\* response.contents?.map(c => c.key) ?? []
PageKeys(response) ==
  IF "contents" \in DOMAIN response
  THEN [i \in 1..Len(Get(response["contents"])) |->
          Get(Get(response["contents"])[i]["key"])]
  ELSE <<>>
Member(obj, k) == IF k \in DOMAIN obj THEN obj[k] ELSE None

\* The caller's record of its listing after one more response.
Listed(l, entry, mode, pageSize, r) ==
  [entry |-> entry, mode |-> mode, pageSize |-> pageSize,
   reqs |-> l.reqs \o r.reqs,
   pages |-> Append(l.pages, PageKeys(r.val)),
   truncated |-> Member(r.val, "isTruncated") = Some(TRUE),
   token |-> Member(r.val, "nextContinuationToken"),
   n |-> l.n + 1, thrown |-> l.thrown]

\* The input of the caller's next call: the token of the response before, or
\* the key of the last object it returned as startAfter. The last object of
\* a response without contents, or with none in them, is undefined, and
\* taking its key throws a TypeError.
NextInput(l) ==
  IF l.mode = "token"
  THEN [outcome |-> "return", err |-> NoThrow,
        input |-> [NoInput EXCEPT !.continuationToken = l.token]]
  ELSE LET page == l.pages[Len(l.pages)]
       IN  IF page = <<>>
           THEN [outcome |-> "throw", err |-> TypeError, input |-> NoInput]
           ELSE [outcome |-> "return", err |-> NoThrow,
                 input |-> [NoInput EXCEPT
                              !.startAfter = Some(page[Len(page)])]]

\* The caller's first list call.
ListFirst ==
  /\ lst.entry = "none"
  /\ \E entry \in ListEntries, mode \in ListModes, pageSize \in 1..MaxPage :
       lst' = Listed(lst, entry, mode, pageSize,
                     ListThrough(entry, NoInput,
                                 [PlainProfile EXCEPT !.PageSize = pageSize]))
  /\ UNCHANGED <<opVars, sliceVars>>

\* while (response.isTruncated) response = await list(next input): the
\* caller's loop ends, with no call made, when its next input throws.
ListAgain ==
  /\ lst.entry # "none"
  /\ lst.truncated
  /\ lst.thrown = None
  /\ lst.n < MaxListCalls
  /\ LET next == NextInput(lst)
     IN  lst' = IF next.outcome = "throw"
                THEN [lst EXCEPT !.thrown = Some(next.err)]
                ELSE Listed(lst, lst.entry, lst.mode, lst.pageSize,
                            ListThrough(lst.entry, next.input,
                                        [PlainProfile EXCEPT
                                           !.PageSize = lst.pageSize]))
  /\ UNCHANGED <<opVars, sliceVars>>

ListNext == ListFirst \/ ListAgain

SpecList == ListInit /\ [][ListNext]_vars

Next ==
  \/ Return
  \/ FileSlice \/ FileExists \/ FileStat \/ FileArrayBuffer \/ FileBytes
  \/ FileText \/ FileJson \/ FileWrite \/ FilePresign \/ FileDelete
  \/ ClientFile \/ ClientExists \/ StaticExists \/ BlobClientExists
  \/ ClientStat \/ StaticStat \/ ClientSize \/ StaticSize
  \/ ClientWrite \/ StaticWrite \/ ClientDelete \/ StaticDelete
  \/ ClientUnlink \/ StaticUnlink \/ ClientPresign \/ StaticPresign
  \/ BlobClientPresigned \/ BlobClientGet
  \/ BlobClientWrite \/ BlobClientDelete \/ BlobClientUnlink
  \/ BlobClientFile \/ BlobClientStat \/ BlobClientSize \/ BlobClientList
  \/ ClientList \/ StaticList \/ LibList
  \/ FileStream \/ StartGetResponse \/ StartReadChunk \/ StartReadDone
  \/ StartReadError \/ ConsumerRead \/ ConsumerCancel \/ StreamDrop

Spec == Init /\ [][Next]_vars

\* ------------------------------------------------------- claims on slice
IsNumNum(args) == args[1].k = "number" /\ args[2].k = "number"
\* calls[i] is slice(a, d) and calls[i + 1] is slice(b - a, c - a) for some
\* 0 <= a <= b <= c <= d.
Nested(i) ==
  /\ i + 1 <= Len(calls)
  /\ IsNumNum(calls[i]) /\ IsNumNum(calls[i + 1])
  /\ calls[i + 1][1].n <= calls[i + 1][2].n
  /\ calls[i][1].n + calls[i + 1][2].n <= calls[i][2].n

\* C1: slicing R with (a, d) and the result with (b - a, c - a) gives the same
\* range, begin and end, as slicing R once with (b, c), for every reference R
\* (ranged or not) and all 0 <= a <= b <= c <= d.
C1_SliceComposes ==
  \A i \in 1..Len(calls) :
    Nested(i) =>
      chain[i + 2].range =
        slice(chain[i], Num(calls[i][1].n + calls[i + 1][1].n),
              Num(calls[i][1].n + calls[i + 1][2].n), Undef).range

\* A ranged root sliced with (1, 3) and then (1, 2): a = 1, b = 2, c = d = 3,
\* where the root's own end cuts the window.
C1_Witness ==
  /\ Len(chain) = 3
  /\ Nested(1)
  /\ chain[1].range = Some([begin |-> Some(1), end |-> Some(3)])
  /\ calls[1][1].n = 1 /\ calls[1][2].n = 3
  /\ calls[2][1].n = 1 /\ calls[2][2].n = 2
  /\ chain[3].range = Some([begin |-> Some(3), end |-> Some(3)])

\* A slice call whose arguments are non-negative integers: slice(begin) or
\* slice(begin, end).
IsNumeric(args) ==
  /\ args[1].k = "number"
  /\ args[2].k \in {"number", "undefined"}
  /\ args[3].k = "undefined"

\* C2: every reference reached from an unranged reference by slice calls with
\* non-negative integer arguments has begin <= end when both are present.
C2_BeginLeEnd ==
  (chain[1].range = None /\ \A j \in 1..Len(calls) : IsNumeric(calls[j])) =>
    \A i \in 1..Len(chain) :
      (/\ chain[i].range # None
       /\ Get(chain[i].range).begin # None
       /\ Get(chain[i].range).end # None)
      => Get(Get(chain[i].range).begin) <= Get(Get(chain[i].range).end)

\* The content type a slice call supplies, by its three overloads.
TypeGiven(args) ==
  IF args[1].k = "string" THEN Some(args[1].s)
  ELSE IF args[1].k = "number" /\ args[2].k = "string" THEN Some(args[2].s)
  ELSE IF args[1].k = "number" /\ args[2].k = "number"
          /\ args[3].k = "string" THEN Some(args[3].s)
  ELSE None
\* A slice call with no string among its arguments.
NoTypeGiven(args) == \A j \in 1..3 : args[j].k # "string"

\* C19: the reference slice returns has the original's name and the
\* original's options with the content type replaced by the one supplied;
\* without a content-type argument its options are the original's.
C19_SliceFrame ==
  \A i \in 1..Len(calls) :
    /\ chain[i + 1].name = chain[i].name
    /\ TypeGiven(calls[i]) # None =>
         chain[i + 1].options =
           [chain[i].options EXCEPT !["type"] = TypeGiven(calls[i])]
    /\ NoTypeGiven(calls[i]) => chain[i + 1].options = chain[i].options

\* C20: slice with a content type alone returns a reference with the
\* original's range, absent parts included, whatever that range is.
C20_TypeOnlyKeepsRange ==
  \A i \in 1..Len(calls) :
    (calls[i][1].k = "string" /\ calls[i][2].k = "undefined"
     /\ calls[i][3].k = "undefined")
      => chain[i + 1].range = chain[i].range

\* An open-ended range, first narrowed and then sliced with a content type
\* alone, is kept as narrowed.
C20_Witness ==
  /\ Len(chain) = 3
  /\ chain[1].range = Some([begin |-> Some(1), end |-> None])
  /\ calls[1] = <<Num(1), Undef, Undef>>
  /\ calls[2] = <<Str("text/plain"), Undef, Undef>>
  /\ chain[3].range = Some([begin |-> Some(2), end |-> None])
  /\ chain[3].options["type"] = Some("text/plain")

\* ------------------------------------------------------- claims on reads
ReadOps == {"arrayBuffer", "bytes", "text", "json", "stream"}
HasWindow(this) ==
  this.range # None
  /\ (Get(this.range).begin # None \/ Get(this.range).end # None)

\* C3: a read of a sliced reference asks the backend for the reference's byte
\* range and returns the bytes inside it only; a read of an unranged
\* reference asks for, and returns, the whole object.
C3_ReadsHonourRange ==
  (call.op \in ReadOps /\ Len(call.reqs) = 1) =>
    /\ call.reqs[1].Range = (IF HasWindow(call.this) THEN call.this.range
                             ELSE None)
    /\ (/\ call.op \in {"arrayBuffer", "bytes"}
        /\ call.outcome = "return" /\ call.input = FALSE
        /\ store[call.this.name] # None)
       => call.val = Window(Get(store[call.this.name]).body, call.this.range)

\* ------------------------------------------------------ claims on errors
\* A failure whose kind is NotFound or NoSuchKey.
NotFoundKind(e) == e.isError /\ e.name \in {"NotFound", "NoSuchKey"}

\* C4: exists returns true when the probe succeeds, false when it fails with
\* an error of kind NotFound or NoSuchKey, and throws the probe's own error,
\* returning nothing, on every other failure.
C4_ExistsTriage ==
  call.op = "exists" =>
    /\ Len(call.reqs) = 1 /\ call.reqs[1].cmd = "HeadObject"
    /\ call.failed = None => (call.outcome = "return" /\ call.val = TRUE)
    /\ (call.failed # None /\ NotFoundKind(Get(call.failed)))
         => (call.outcome = "return" /\ call.val = FALSE)
    /\ (call.failed # None /\ ~NotFoundKind(Get(call.failed)))
         => (/\ call.outcome = "throw" /\ call.err = Get(call.failed)
             /\ call.val = None)

\* exists on a reference met a permission failure and threw it on.
C4_Witness ==
  /\ call.op = "exists" /\ call.entry = "R2FileReader"
  /\ call.failed = Some(Err("AccessDenied"))
  /\ call.outcome = "throw" /\ call.err = Err("AccessDenied")

\* C5: but for exists, an operation whose backend call fails, with not-found
\* or anything else, throws the backend's error as it is; a stream whose GET
\* or transport fails reports that error to its consumer.
C5_ErrorsPropagate ==
  /\ (call.op \notin {"none", "exists", "stream"} /\ call.failed # None)
       => (call.outcome = "throw" /\ call.err = Get(call.failed))
  /\ (call.op = "stream" /\ strm.getFailed # None /\ ~strm.cancelled)
       => (strm.state = "errored" /\ strm.stored = Get(strm.getFailed))
  /\ (call.op = "stream" /\ strm.getFailed # None /\ strm.seen # None)
       => strm.seen = strm.getFailed

\* delete of a key the backend reports as not found threw that error.
C5_Witness ==
  /\ call.op = "delete" /\ call.entry = "R2FileReader"
  /\ call.failed = Some(Err("NoSuchKey"))
  /\ call.outcome = "throw" /\ call.err = Err("NoSuchKey")

\* -------------------------------------------------------- claims on list
\* C6: every list call, through the Client instance, the static Client.list
\* and the list function, sends one listing request whose prefix, delimiter,
\* continuation token, max keys, start-after, fetch-owner and encoding type
\* are those of its input.
C6_ListPassesFilters ==
  (call.op = "list" /\ call.entry \in ListEntries) =>
    /\ Len(call.reqs) = 1
    /\ call.reqs[1].cmd = "ListObjectsV2"
    /\ call.reqs[1].Prefix = call.input.prefix
    /\ call.reqs[1].Delimiter = call.input.delimiter
    /\ call.reqs[1].ContinuationToken = call.input.continuationToken
    /\ call.reqs[1].MaxKeys = call.input.maxKeys
    /\ call.reqs[1].StartAfter = call.input.startAfter
    /\ call.reqs[1].FetchOwner = call.input.fetchOwner
    /\ call.reqs[1].EncodingType = call.input.encodingType

\* The keys the bucket holds, in listing order.
StoredKeys == Filter(store, ListCommand(NoInput, NoOptions), None, 1)
\* Call i of the listing got page i of the bucket, and the last call made is
\* the one that got the last page.
PagesInOrder ==
  /\ \A i \in 1..lst.n :
       lst.pages[i] =
         SubSeq(StoredKeys, (i - 1) * lst.pageSize + 1,
                Min(i * lst.pageSize, Len(StoredKeys)))
  /\ lst.n > 0 => (lst.truncated <=> lst.n * lst.pageSize < Len(StoredKeys))

\* C7: a caller paging with Client.list, by continuation token or by
\* startAfter, gets the next page with each call, so sees every object once,
\* and gets a response that is not truncated once the pages are through.
C7_PaginationProgress ==
  lst.entry \in ClientEntries => PagesInOrder
\* The same of a caller paging with the list function.
ListFunctionPaginationProgress ==
  lst.entry = "list" => PagesInOrder

\* obj has no member whose value is undefined.
NoUndefined(obj) == \A k \in DOMAIN obj : obj[k] # None
\* C8: no ListResponse has a member with the value undefined, at the top
\* level, in an entry of contents, in an owner or in a restoreStatus.
C8_SparseResponse ==
  (call.op = "list" /\ call.entry \in ListEntries
   /\ call.outcome = "return") =>
    /\ NoUndefined(call.val)
    /\ "contents" \in DOMAIN call.val =>
         \A i \in 1..Len(Get(call.val["contents"])) :
           LET c == Get(call.val["contents"])[i]
           IN  /\ NoUndefined(c)
               /\ "owner" \in DOMAIN c => NoUndefined(Get(c["owner"]))
               /\ "restoreStatus" \in DOMAIN c
                    => NoUndefined(Get(c["restoreStatus"]))

\* ------------------------------------------------------ claims on stream
\* C9: the adapter reads from the transport only on the consumer's pull: the
\* chunks taken from the transport never exceed the consumer's pulls plus
\* the capacity of the stream's queue.
C9_LazyPull ==
  strm.taken <= strm.pulls + HighWaterMark

\* What start caught from the GET or from a read of the transport, if anything.
StreamFailure == IF strm.getFailed # None THEN strm.getFailed ELSE strm.readFailed

\* C11: stream returns a stream and throws nothing; a failure of the GET or
\* of a later read leaves the stream errored with that error, which is what
\* a consumer that iterates sees; a response without a body ends the stream
\* with no chunk.
C11_StreamErrors ==
  call.op = "stream" =>
    /\ call.outcome = "return"
    /\ (StreamFailure # None /\ ~strm.cancelled)
         => (strm.state = "errored" /\ strm.stored = Get(StreamFailure))
    /\ strm.seen # None => strm.seen = StreamFailure
    /\ (StreamFailure # None /\ strm.pulls > Len(strm.got) /\ ~strm.pending)
         => strm.seen = StreamFailure
    /\ strm.noBody =>
         /\ strm.taken = 0 /\ strm.got = <<>> /\ strm.seen = None
         /\ ~strm.cancelled => strm.state = "closed"
         /\ (strm.pulls > 0 /\ ~strm.pending) => strm.done

\* The transport failed after the consumer got a chunk, and the consumer's
\* next read saw the failure.
C11_Witness ==
  /\ call.op = "stream"
  /\ strm.readFailed = Some(Err("ECONNRESET"))
  /\ Len(strm.got) = 1
  /\ strm.seen = Some(Err("ECONNRESET"))

\* ---------------------------------------------------- claims on presign
\* options.method, GET when none is given.
MethodOf(options) ==
  IF options.method # None /\ options.method # Some("")
  THEN Get(options.method) ELSE "GET"
\* The content type of the reference a presign call goes through, if any.
ReferenceType ==
  IF call.entry = "BlobClient" THEN None ELSE call.this.options["type"]
\* A command that carries a bucket and a key and nothing else.
OnlyBucketAndKey(cmd) ==
  \A f \in DOMAIN cmd \ {"cmd", "Bucket", "Key"} : cmd[f] = None

\* C12: presign signs the command of options.method, GET by default: for GET
\* and HEAD a read or metadata command with bucket and key only, for PUT a
\* write command with the content type (the call's, else the reference's)
\* and the ACL when supplied, for DELETE a delete command.
C12_PresignCommand ==
  (call.op = "presign" /\ call.outcome = "return"
   /\ MethodOf(call.input) \in Methods) =>
    LET signed == call.val.signed
        method == MethodOf(call.input)
    IN  /\ method = "GET"
             => (signed.cmd = "GetObject" /\ OnlyBucketAndKey(signed))
        /\ method = "HEAD"
             => (signed.cmd = "HeadObject" /\ OnlyBucketAndKey(signed))
        /\ method = "DELETE" => signed.cmd = "DeleteObject"
        /\ method = "PUT" =>
             /\ signed.cmd = "PutObject"
             /\ signed.ContentType =
                  (IF call.input.opts["type"] # None
                   THEN call.input.opts["type"] ELSE ReferenceType)
             /\ signed.ACL = call.input.opts["acl"]

\* The same of the presign of a reference and of Client, where it holds.
FilePresignCommand ==
  (call.op = "presign" /\ call.entry # "BlobClient") => C12_PresignCommand

\* C13: presign with a method other than GET, HEAD, PUT and DELETE throws an
\* unsupported-method error through every entry point and returns no URL.
C13_UnsupportedMethod ==
  (call.op = "presign" /\ MethodOf(call.input) \notin Methods) =>
    /\ call.outcome = "throw"
    /\ call.err = LibError("Unsupported method: " \o MethodOf(call.input))

\* The same of the presign of a reference and of Client, where it holds.
FileUnsupportedMethod ==
  (call.op = "presign" /\ call.entry # "BlobClient") => C13_UnsupportedMethod

\* ------------------------------------------------------ claims on write
\* The content type a payload carries: that of a request, response or blob
\* which declares one.
PayloadType(data) ==
  IF (IsRequestOrResponse(data) \/ IsBlob(data)) /\ Truthy(data.ctype)
  THEN data.ctype ELSE None
\* The type given with the write call itself.
PerCallType == call.input.options["type"]
\* A write through a reference, or through Client, which writes through one.
ReferenceWrite == call.op = "write" /\ call.entry # "BlobClient"

\* C14, as stated: the PUT carries the type given with the call, else the
\* payload's own type, else none.
C14_TypePrecedence ==
  (ReferenceWrite /\ Len(call.reqs) = 1) =>
    call.reqs[1].ContentType =
      (IF PerCallType # None THEN PerCallType
       ELSE PayloadType(call.input.data))

\* The type in effect for the write: the type given with the call, an empty
\* one too, else the type of the reference written through.
TypeInEffect ==
  IF PerCallType # None THEN PerCallType ELSE call.this.options["type"]
\* A request, a response or a blob: a payload that can declare a type.
DeclaresType(data) == IsRequestOrResponse(data) \/ IsBlob(data)

\* C14, amended: the type in effect is the type given with the call, empty
\* or not, else the type of the reference written through. For a payload
\* that cannot declare a type the PUT carries the type in effect as it is;
\* for a request, a response or a blob it carries the type in effect when
\* that is not empty, else the payload's own type when that is not empty,
\* else none.
C14_TypePrecedenceWithReference ==
  (ReferenceWrite /\ Len(call.reqs) = 1) =>
    call.reqs[1].ContentType =
      (IF ~DeclaresType(call.input.data) THEN TypeInEffect
       ELSE IF TypeInEffect # None /\ TypeInEffect # Some("")
       THEN TypeInEffect
       ELSE PayloadType(call.input.data))

\* A response declaring application/json, written through an untyped
\* reference with no type given, is stored as application/json.
C14_Witness ==
  /\ call.op = "write" /\ call.entry = "R2FileReader"
  /\ call.outcome = "return"
  /\ call.input.data.kind = "Response"
  /\ PerCallType = None /\ call.this.options["type"] = None
  /\ call.reqs[1].ContentType = Some("application/json")
  /\ Get(store["a.txt"]).type = Some("application/json")

\* A response declaring application/json, written with an empty type through
\* a reference typed image/png, is stored as application/json.
EmptyTypeGivesWay ==
  /\ call.op = "write" /\ call.entry = "R2FileReader"
  /\ call.outcome = "return"
  /\ call.input.data.kind = "Response"
  /\ PerCallType = Some("") /\ call.this.options["type"] = Some("image/png")
  /\ call.reqs[1].ContentType = Some("application/json")
\* A string written with an empty type is sent with the empty type.
EmptyTypeSent ==
  /\ call.op = "write" /\ call.entry = "R2FileReader"
  /\ call.outcome = "return"
  /\ call.input.data.kind = "string"
  /\ PerCallType = Some("")
  /\ call.reqs[1].ContentType = Some("")
\* A blob that declares no type, written with an empty type, is sent with
\* none.
EmptyTypeDropped ==
  /\ call.op = "write" /\ call.entry = "R2FileReader"
  /\ call.outcome = "return"
  /\ call.input.data.kind = "Blob"
  /\ PerCallType = Some("")
  /\ call.reqs[1].ContentType = None

\* The payload shapes write is specified to take, and the kinds its signature
\* and documentation declare.
TakenKinds ==
  {"string", "ArrayBuffer", "SharedArrayBuffer", "Uint8Array", "Buffer",
   "DataView", "Request", "Response", "Blob", "File"}
DeclaredKinds == TakenKinds \cup {"R2File", "ReadableStream"}
UnsupportedPayload == LibError("Unsupported data type")

\* write throws the unsupported-payload error for a payload of no taken
\* shape and for no other, and then sends nothing.
UnsupportedPayloadSendsNothing ==
  ReferenceWrite =>
    /\ call.err = UnsupportedPayload <=> call.input.data.kind \notin TakenKinds
    /\ call.err = UnsupportedPayload
         => (call.outcome = "throw" /\ call.reqs = <<>>)

\* C15: write throws the unsupported-payload error exactly for a payload of
\* no taken shape, sending nothing, and writes every payload of a declared
\* kind, streams and object references among them.
C15_UnsupportedPayload ==
  /\ UnsupportedPayloadSendsNothing
  /\ (ReferenceWrite /\ call.input.data.kind \in DeclaredKinds)
       => (Len(call.reqs) = 1 /\ call.err # UnsupportedPayload)

\* The number of bytes of the UTF-8 form of a string.
RECURSIVE Utf8Length(_)
Utf8Length(text) ==
  IF text = <<>> THEN 0
  ELSE (IF Head(text) < 128 THEN 1 ELSE IF Head(text) < 2048 THEN 2 ELSE 3)
       + Utf8Length(Tail(text))
RECURSIVE Concat(_)
Concat(chunks) ==
  IF chunks = <<>> THEN <<>> ELSE Head(chunks) \o Concat(Tail(chunks))
\* A read through an unsliced reference that the backend answered with a body.
WholeRead(op) ==
  /\ call.op = op /\ call.outcome = "return" /\ call.input = FALSE
  /\ ~HasWindow(call.this)

\* C16: while a.txt holds what a write of the string s stored, text returns
\* s, the chunks of a finished stream put together are s, arrayBuffer has
\* the UTF-8 length of s, and that length is what the write returned.
C16_RoundTrip ==
  /\ wrote # None =>
       /\ WholeRead("text") => call.val = Get(wrote)
       /\ WholeRead("arrayBuffer") => Len(call.val) = Utf8Length(Get(wrote))
       /\ (call.op = "stream" /\ ~HasWindow(call.this) /\ strm.done
            /\ ~strm.noBody)
            => Utf8Decode(Concat(strm.got)) = Get(wrote)
  /\ (ReferenceWrite /\ call.outcome = "return"
      /\ call.input.data.kind = "string")
       => (wrote = Some(call.input.data.text)
           /\ call.val = Utf8Length(call.input.data.text))

\* text returned the two-character string, three bytes in UTF-8, that a.txt
\* was written from.
C16_Witness ==
  /\ wrote = Some(<<65, 233>>)
  /\ WholeRead("text")
  /\ call.val = <<65, 233>>
  /\ Len(Get(store["a.txt"]).body) = 3

\* The options in effect for a call through Client: the instance's defaults
\* under the call's for an instance call, the call's alone for a static one.
EffectiveOptions ==
  IF call.entry = "Client" THEN Merge(client, call.input.options)
  ELSE call.input.options

\* C17: the PUT of Client.write carries the ACL and the storage class of the
\* options in effect.
C17_ClientWriteTags ==
  (call.op = "write" /\ call.entry \in {"Client", "Client.static"}
   /\ Len(call.reqs) = 1) =>
    /\ call.reqs[1].ACL = EffectiveOptions["acl"]
    /\ call.reqs[1].StorageClass = EffectiveOptions["storageClass"]

\* ----------------------------------------------------- claims on options
\* The options given with the call itself.
PerCallOptions ==
  IF call.op = "write" THEN call.input.options
  ELSE IF call.op = "presign" THEN call.input.opts
  ELSE IF call.op = "list" THEN call.options
  ELSE call.input
\* The instance's defaults overridden key by key by the call's options.
InEffect ==
  [k \in OptKeys |-> IF PerCallOptions[k] # None THEN PerCallOptions[k]
                     ELSE client[k]]
\* The call went to the backend, or signed, with the options in effect.
\* presign reads the type and the ACL from its own options; list has no
\* reference.
UsesOptionsInEffect ==
  /\ call.op \notin {"list", "presign"} => call.this.options = InEffect
  /\ call.op = "presign" =>
       \A k \in {"bucket", "endpoint", "accessKeyId"} :
         call.this.options[k] = InEffect[k]
  /\ \A i \in 1..Len(call.reqs) :
       call.reqs[i].Bucket =
         (IF call.op = "list" THEN InEffect["bucket"]
          ELSE OrElse(InEffect["bucket"], ""))
  /\ (call.op = "presign" /\ call.outcome = "return")
       => call.val.signed.Bucket = OrElse(InEffect["bucket"], "")

InstanceOps ==
  {"file", "write", "delete", "unlink", "exists", "size", "stat", "list",
   "presign"}

\* C18: every operation of a Client instance runs with the instance's
\* defaults overridden key by key by the options of the call.
C18_OptionsMerge ==
  (call.op \in InstanceOps /\ call.entry = "Client") => UsesOptionsInEffect

\* The same of every operation but presign, where it holds.
OptionsMergeButPresign ==
  (call.op \in InstanceOps \ {"presign"} /\ call.entry = "Client")
    => UsesOptionsInEffect

\* C10: once the consumer has cancelled the stream, no further chunk is read
\* from the transport, and the adapter does not finish with the transport
\* reader still held.
C10_CancelReleases ==
  strm.cancelled =>
    /\ strm.taken = strm.takenAtCancel
    /\ strm.pc = "exited" => ~strm.reader

\* --------------------------------------------------- claims on references
\* The operations of a reference that leave it as it is.
ReferenceOps ==
  {"exists", "stat", "stream", "text", "bytes", "arrayBuffer", "json",
   "write", "presign", "delete"}

\* C21: a reference is as constructed whatever was run on it: the reference
\* an operation ran on has, after the operation, the name, options and range
\* of a reference the caller holds, the root is as client.file returned it,
\* and what slice returned is held beside the root and is as slice made it.
C21_ReferencesImmutable ==
  /\ file = chain[1]
  /\ part # None =>
       \E args \in PartArgs :
         part = Some(slice(chain[1], args[1], args[2], args[3]))
  /\ (call.op \in ReferenceOps /\ call.entry = "R2FileReader")
       => call.this \in Held

\* A write through the root with a content type of its own stored that type
\* and left the root, sliced before, with the type it had.
C21_Witness ==
  /\ call.op = "write" /\ call.entry = "R2FileReader"
  /\ call.outcome = "return"
  /\ call.input.options["type"] = Some("text/html")
  /\ Get(store["a.txt"]).type = Some("text/html")
  /\ call.this = file /\ file.options["type"] = Some("image/png")
  /\ part # None /\ Get(part).range # file.range

\* ----------------------------------------------- claims on presign expiry
\* A presign call without expiresIn that returned a URL.
DefaultExpiry ==
  call.op = "presign" /\ call.outcome = "return" /\ call.input.expiresIn = None

\* C22, as stated: without expiresIn the URL expires after 900 seconds when
\* presign is called on a reference and after 3600 seconds when it is called
\* at the client level.
C22_ExpiryDefaults ==
  DefaultExpiry =>
    call.val.expiresIn = (IF call.entry = "R2FileReader" THEN 900 ELSE 3600)

\* C22, amended: without expiresIn the URL expires after 900 seconds when
\* presign is called on a reference or through Client, instance or static,
\* and after 3600 seconds when it is called through BlobClient.presigned.
C22_ExpiryDefaultsByPath ==
  DefaultExpiry =>
    call.val.expiresIn = (IF call.entry = "BlobClient" THEN 3600 ELSE 900)

\* client.presign of a PUT without expiresIn returned a URL of 900 seconds.
C22_Witness ==
  /\ DefaultExpiry /\ call.entry = "Client"
  /\ call.input.method = Some("PUT")
  /\ call.val.signed.cmd = "PutObject"
  /\ call.val.expiresIn = 900

\* ------------------------------------------------ claims on fresh reads
\* The GET requests among the requests the call sent.
GetsOf(c) == {i \in 1..Len(c.reqs) : c.reqs[i].cmd = "GetObject"}
\* What the backend holds, now, for the call's one request.
ContentNow == Get(Send(store, call.reqs[1], None).Body)
\* A materializing read the backend answered with a body.
Materialized(op) ==
  call.op = op /\ call.outcome = "return" /\ call.input = FALSE

\* C23: every call of stream, arrayBuffer, bytes, text and json sends one GET
\* of its own for the object and no other call on a reference or through
\* Client sends a GET, so n reads are n GETs; what a materializing read returns is the object as the backend
\* holds it at that GET, whatever was read or written before; and a stream
\* has the transport reader of its own response, at the body's first byte.
C23_ReadsNotShared ==
  /\ call.op \in ReadOps =>
       /\ Len(call.reqs) = 1
       /\ call.reqs[1].cmd = "GetObject"
       /\ call.reqs[1].Bucket = call.this.bucket
       /\ call.reqs[1].Key = call.this.name
  /\ (call.op \notin ReadOps \cup {"none"} /\ call.entry # "BlobClient")
       => GetsOf(call) = {}
  /\ (Materialized("arrayBuffer") \/ Materialized("bytes"))
       => call.val = ContentNow
  /\ Materialized("text") => call.val = Utf8Decode(ContentNow)
  /\ Materialized("json") => call.val = JsonParse(Utf8Decode(ContentNow)).value
  /\ (call.op = "stream" /\ strm.pc = "reading" /\ strm.taken = 0)
       => (strm.reader /\ strm.body = ContentNow /\ strm.got = <<>>)

\* bytes through the slice returned what a write of two bytes had put in the
\* place of the three the object held at first.
C23_Witness ==
  /\ Materialized("bytes")
  /\ part # None /\ call.this = Get(part)
  /\ call.val = <<49, 50>>
  /\ Len(call.reqs) = 1

\* json returned the number 10 for an object written from the text 1e1.
JsonOfExponent ==
  /\ Materialized("json")
  /\ ContentNow = <<49, 101, 49>>
  /\ call.val = JsonNumber(10)
\* json returned null for an object written from the text null.
JsonOfLiteral ==
  /\ Materialized("json")
  /\ ContentNow = <<110, 117, 108, 108>>
  /\ call.val = JsonLiteral("null")

\* --------------------------------------------------------- claims on stat
\* The backend's answer, now, to the call's one request.
HeadNow == Send(store, call.reqs[1], None)

\* C24: every stat and size call on a reference or through Client sends one
\* HEAD for the object; stat returns
\* the type, tag, length and date of the backend's answer, with "", "", 0
\* and the time of the call in the place of each the backend left out and
\* of no other; Client.size returns the size stat returns for the path.
C24_StatDefaults ==
  /\ (call.op \in {"stat", "size"} /\ call.entry # "BlobClient") =>
       /\ Len(call.reqs) = 1
       /\ call.reqs[1] = HeadObjectCommand(call.this.bucket, call.this.name)
  /\ (call.op = "stat" /\ call.entry # "BlobClient"
      /\ call.outcome = "return") =>
       /\ call.val.type = (IF HeadNow.ContentType # None
                           THEN Get(HeadNow.ContentType) ELSE "")
       /\ call.val.etag = (IF HeadNow.ETag # None
                           THEN Get(HeadNow.ETag) ELSE "")
       /\ call.val.size = (IF HeadNow.ContentLength # None
                           THEN Get(HeadNow.ContentLength) ELSE 0)
       /\ call.val.lastModified = (IF HeadNow.LastModified # None
                                   THEN Get(HeadNow.LastModified) ELSE "now")
  /\ (call.op = "size" /\ call.entry # "BlobClient"
      /\ call.outcome = "return") =>
       call.val = R2FileReader_stat(call.this, store, None).val.size

\* stat of an object the backend returned no attribute for has every default.
C24_Witness ==
  /\ call.op = "stat" /\ call.entry = "R2FileReader"
  /\ call.outcome = "return"
  /\ HeadNow.ETag = None /\ HeadNow.ContentLength = None
  /\ call.val = [type |-> "", etag |-> "", size |-> 0, lastModified |-> "now"]

\* Client.size returned the three bytes the backend reports for a.txt.
SizeOfThree ==
  /\ call.op = "size" /\ call.entry = "Client" /\ call.outcome = "return"
  /\ call.val = 3

\* ------------------------------------------------ claims on empty lists
\* The backend has neither an object nor a common prefix to return for the
\* call's request.
NothingListed ==
  LET r == SendList(store, call.reqs[1], None, PlainProfile)
  IN  r.ok /\ r.Contents = None /\ r.CommonPrefixes = None
\* The member k of obj is absent, or is an empty list.
AbsentOrEmpty(obj, k) == k \notin DOMAIN obj \/ obj[k] = Some(<<>>)

\* C25: when the backend returns no contents and no common prefixes, the
\* ListResponse has contents and commonPrefixes absent or empty: neither is
\* a member with the value undefined.
C25_EmptyList ==
  (call.op = "list" /\ call.entry \in ListEntries
   /\ call.outcome = "return" /\ NothingListed) =>
    /\ AbsentOrEmpty(call.val, "contents")
    /\ AbsentOrEmpty(call.val, "commonPrefixes")

\* list under a prefix no key has returned a response with a key count of
\* zero and neither member.
C25_Witness ==
  /\ call.op = "list" /\ call.entry = "list" /\ call.outcome = "return"
  /\ call.input.prefix = Some("zz")
  /\ NothingListed
  /\ call.val["keyCount"] = Some(0)
  /\ "contents" \notin DOMAIN call.val
  /\ "commonPrefixes" \notin DOMAIN call.val

\* The same against a backend that sends empty lists: both are empty lists.
EmptyListsKept ==
  /\ call.op = "list" /\ call.entry \in ListEntries
  /\ call.outcome = "return" /\ NothingListed
  /\ Member(call.val, "contents") = Some(<<>>)
  /\ Member(call.val, "commonPrefixes") = Some(<<>>)

\* ------------------------------------------------- claims on stream order
\* Neither the GET nor a read of the transport failed, and the consumer did
\* not cancel.
Healthy ==
  strm.getFailed = None /\ strm.readFailed = None /\ ~strm.cancelled
IsPrefix(a, b) == Len(a) <= Len(b) /\ SubSeq(b, 1, Len(a)) = a

\* The chunks the consumer has are the first chunks the transport produced,
\* in order and once each; at the end of a stream nothing failed on they are
\* all of them, and are the body; the end is signalled by the one close that
\* ends start, and excludes an error.
InOrder ==
  strm.pc # "none" =>
    /\ IsPrefix(strm.got, strm.produced)
    /\ Len(strm.produced) = strm.taken
    /\ strm.closeRequested => strm.pc = "exited"
    /\ strm.done => (strm.seen = None /\ strm.state = "closed")
    /\ (strm.done /\ Healthy) =>
         /\ strm.got = strm.produced
         /\ ~strm.noBody => Concat(strm.got) = ContentNow
         /\ strm.noBody => strm.got = <<>>
\* Once the consumer has the end or an error it gets nothing more from the
\* stream.
NothingAfterEnd ==
  ((strm.done \/ strm.seen # None) /\ strm'.pc # "none")
    => (strm'.got = strm.got /\ strm'.done = strm.done
        /\ strm'.seen = strm.seen)

\* C26: with no transport failure and a consumer that reads to the end, the
\* stream delivers the chunks of the body in the order the transport
\* produced them, each once, none lost, and then the end, once; no chunk is
\* delivered after the end or after an error.
C26_StreamOrder == [][InOrder' /\ NothingAfterEnd]_vars

\* The transport produced the body in two chunks, the second while the
\* first was still queued, and the consumer got both and then the end.
C26_Witness ==
  /\ call.op = "stream" /\ Healthy /\ strm.done
  /\ strm.produced = << <<49, 50>>, <<51>> >>
  /\ strm.got = strm.produced
  /\ strm.pulls = 3

\* -------------------------------------------------- claims on get ranges
\* The range object of the call has the members ks, each a number, and no
\* other.
RangeWith(ks) ==
  /\ call.input.range # None
  /\ Get(call.input.range).kind = "object"
  /\ DOMAIN Get(call.input.range).obj = ks
  /\ \A k \in ks : Get(call.input.range).obj[k] # None
RangeMember(k) == Get(Get(call.input.range).obj[k])
\* The Range header the call sent, if any.
SentRange == call.reqs[1].Range
\* The bytes a.txt holds.
StoredLength == Len(Get(store["a.txt"]).body)

\* get builds the header of each form of range as stated, a length of 0 with
\* an offset left aside.
RangeHeaderButZeroLength ==
  call.op = "get" =>
    /\ call.input.range = None => SentRange = None
    /\ RangeWith({"suffix"})
         => SentRange = Some("bytes=-" \o ToString(RangeMember("suffix")))
    /\ (RangeWith({"offset", "length"}) /\ RangeMember("length") > 0) =>
         /\ SentRange =
              Some("bytes=" \o ToString(RangeMember("offset")) \o "-"
                   \o ToString(RangeMember("offset") + RangeMember("length")
                               - 1))
         /\ (call.outcome = "return"
             /\ RangeMember("offset") + RangeMember("length") <= StoredLength)
              => Len(call.val.body) = RangeMember("length")
    /\ RangeWith({"offset"})
         => SentRange = Some("bytes=" \o ToString(RangeMember("offset")) \o "-")
    /\ RangeWith({"length"})
         => SentRange =
              Some("bytes=0-" \o ToString(RangeMember("length") - 1))

\* C27: get sends bytes=-n for {suffix: n}; bytes=s-(s+l-1) for {offset: s,
\* length: l}, which asks for l bytes, for every l >= 0; bytes=s- for
\* {offset: s}; bytes=0-(l-1) for {length: l}; and no Range header without a
\* range option.
C27_RangeHeader ==
  /\ RangeHeaderButZeroLength
  /\ (call.op = "get" /\ RangeWith({"offset", "length"})) =>
       /\ SentRange =
            Some("bytes=" \o ToString(RangeMember("offset")) \o "-"
                 \o ToString(RangeMember("offset") + RangeMember("length") - 1))
       /\ (call.outcome = "return"
           /\ RangeMember("offset") + RangeMember("length") <= StoredLength)
            => Len(call.val.body) = RangeMember("length")

\* get of one byte at offset 1 of the three a.txt holds returned that byte.
OneByteAtOffset ==
  /\ call.op = "get" /\ call.outcome = "return"
  /\ RangeWith({"offset", "length"})
  /\ SentRange = Some("bytes=1-1")
  /\ call.val.body = <<50>>

====
